---------------------------- MODULE Spec2Model ----------------------------
(* Caching and rate-limiting layer of go-briefly-bot:                      *)
(*   src/src/utils/compression.py   the codec                              *)
(*   src/src/cache/base.py          CacheProvider (encode / decode)        *)
(*   src/src/cache/in_memory.py     InMemoryCacheProvider                  *)
(*   src/src/cache/local.py         LocalCacheProvider (the fallback)      *)
(*   src/src/cache/valkey.py        ValkeyProvider (the fail-soft facade)  *)
(* Time is time.monotonic() counted in whole ticks; a window or a TTL is   *)
(* a number of ticks.  Python's None is the empty tuple, a Python tuple is *)
(* a TLA+ tuple, bytes and str are sequences of numbers.                   *)
EXTENDS Integers, Sequences, FiniteSets, TLC

\* ------------------------------------------------------------- bounds
MaxTime == 3
MaxWindow == 2
MaxTtl == 2
NTasks == 2
MaxCount == 2
NCallers == 2
MaxInstances == 2

Times == 0..MaxTime
Users == {123, 456}
Windows == (0 - 1)..MaxWindow
Ttls == 0..MaxTtl
Tasks == 1..NTasks
Callers == 1..NCallers
Keys == {"summary:h1:en", "transcript:h1"}
TextKeys == {"summary:h1:en"}
DictKeys == {"transcript:h1"}
Texts == {<<72>>, <<72, 233>>}

None == <<>>
Some(x) == <<x>>

\* ------------------------------------------------ the compression codec
\* CompressionMethod: the four method names.
CompressionMethod == {"none", "gzip", "zlib", "lzma"}

\* COMPRESSION_PREFIXES: the one-byte tag of each method.
COMPRESSION_PREFIXES(m) ==
    CASE m = "none" -> 0
      [] m = "gzip" -> 1
      [] m = "zlib" -> 2
      [] m = "lzma" -> 3

\* PREFIX_TO_METHOD.get(prefix): the method of a tag, None for an unknown tag.
PREFIX_TO_METHOD(b) ==
    IF \E m \in CompressionMethod : COMPRESSION_PREFIXES(m) = b
    THEN Some(CHOOSE m \in CompressionMethod : COMPRESSION_PREFIXES(m) = b)
    ELSE None

Ok(v) == [ok |-> TRUE, val |-> v]
Err(e) == [ok |-> FALSE, err |-> e]

RECURSIVE SumBytes(_)
SumBytes(s) == IF s = <<>> THEN 0 ELSE Head(s) + SumBytes(Tail(s))

\* The integrity check a gzip / zlib / xz container carries (CRC32, Adler-32,
\* CRC64), kept to one byte.
Checksum(s) == SumBytes(s) % 256

\* The first byte of each container: gzip 0x1f, zlib 0x78, xz 0xfd.
Magic(m) ==
    CASE m = "gzip" -> 31
      [] m = "zlib" -> 120
      [] m = "lzma" -> 253

\* The header fields after the magic that no reader verifies: gzip carries
\* some (MTIME, XFL, OS; the OS byte 0xff stands for them), zlib and xz none.
Unverified(m) == IF m = "gzip" THEN <<255>> ELSE <<>>

\* gzip.compress / zlib.compress / lzma.compress: a lossless container around
\* the data: magic, header fields, the body as one stored block (its length,
\* then the data), and the checksum.
Deflate(m, data) ==
    <<Magic(m)>> \o Unverified(m) \o <<Len(data) % 256>> \o data \o <<Checksum(data)>>

\* gzip.decompress / zlib.decompress / lzma.decompress: the data of a
\* container whose magic, block length and checksum are right, an error for
\* one cut short or failing a check. gzip reads members until the input ends,
\* so no input at all is no data and no error.
Inflate(m, payload) ==
    LET len == 2 + Len(Unverified(m))
    IN  IF m = "gzip" /\ payload = <<>> THEN Ok(<<>>)
        ELSE IF Len(payload) < len + 1 THEN Err("CompressionError")
        ELSE LET body == SubSeq(payload, len + 1, Len(payload) - 1)
             IN  IF /\ payload[1] = Magic(m)
                    /\ payload[len] = Len(body) % 256
                    /\ payload[Len(payload)] = Checksum(body)
                 THEN Ok(body)
                 ELSE Err("CompressionError")

\* A deliberately wrong compress, for comparison: the payload without its tag.
compress_untagged(data, method) ==
    IF method = "none" THEN data ELSE Deflate(method, data)

\* compress(data, method)
compress(data, method) ==
    IF method = "none"
    THEN <<COMPRESSION_PREFIXES("none")>> \o data
    ELSE <<COMPRESSION_PREFIXES(method)>> \o Deflate(method, data)

\* A deliberately wrong decompress, for comparison: the inverse transform is
\* that of the default method, whatever tag the data carries.
decompress_by_default(data) ==
    IF data = <<>> THEN Ok(data)
    ELSE IF PREFIX_TO_METHOD(data[1]) = None THEN Err("CompressionError")
    ELSE Inflate("gzip", Tail(data))

\* A deliberately wrong decompress, for comparison: a payload the library
\* rejects is swallowed and no data returned in its place.
decompress_swallow(data) ==
    IF data = <<>> THEN Ok(data)
    ELSE LET method == PREFIX_TO_METHOD(data[1])
             payload == Tail(data)
         IN  IF method = None THEN Err("CompressionError")
             ELSE IF method[1] = "none" THEN Ok(payload)
             ELSE IF Inflate(method[1], payload).ok THEN Inflate(method[1], payload)
             ELSE Ok(<<>>)

\* A deliberately wrong decompress, for comparison: data without a tag is
\* refused, the empty byte string included.
decompress_tagged(data) ==
    IF data = <<>> THEN Err("CompressionError")
    ELSE LET method == PREFIX_TO_METHOD(data[1])
             payload == Tail(data)
         IN  IF method = None THEN Err("CompressionError")
             ELSE IF method[1] = "none" THEN Ok(payload)
             ELSE Inflate(method[1], payload)

\* decompress(data)
decompress(data) ==
    IF data = <<>> THEN Ok(data)
    ELSE LET method == PREFIX_TO_METHOD(data[1])
             payload == Tail(data)
         IN  IF method = None THEN Err("CompressionError")
             ELSE IF method[1] = "none" THEN Ok(payload)
             ELSE Inflate(method[1], payload)

\* ------------------------------------------------- str, bytes and JSON
\* str.encode("utf-8") of one code point below 0x800.
Utf8Char(c) == IF c < 128 THEN <<c>> ELSE <<192 + (c \div 64), 128 + (c % 64)>>

RECURSIVE Utf8Encode(_)
Utf8Encode(text) ==
    IF text = <<>> THEN <<>> ELSE Utf8Char(Head(text)) \o Utf8Encode(Tail(text))

\* bytes.decode("utf-8"): the text, or an error on an ill-formed sequence.
RECURSIVE Utf8Decode(_)
Utf8Decode(bytes) ==
    IF bytes = <<>> THEN Ok(<<>>)
    ELSE IF bytes[1] < 128
         THEN LET rest == Utf8Decode(Tail(bytes))
              IN  IF rest.ok THEN Ok(<<bytes[1]>> \o rest.val) ELSE rest
    ELSE IF /\ bytes[1] >= 194 /\ bytes[1] < 224 /\ Len(bytes) >= 2
            /\ bytes[2] >= 128 /\ bytes[2] < 192
         THEN LET rest == Utf8Decode(Tail(Tail(bytes)))
                  c == (bytes[1] - 192) * 64 + (bytes[2] - 128)
              IN  IF rest.ok THEN Ok(<<c>> \o rest.val) ELSE rest
    ELSE Err("UnicodeDecodeError")

\* A value json cannot serialise (a set, an object).
NonSerializable == <<0 - 1>>

\* json.dumps escapes a non-ASCII character (ensure_ascii): backslash, then
\* the character's code kept to one ASCII byte.
RECURSIVE JsonEscape(_)
JsonEscape(text) ==
    IF text = <<>> THEN <<>>
    ELSE (IF Head(text) < 128 THEN <<Head(text)>> ELSE <<92, Head(text) - 128>>)
         \o JsonEscape(Tail(text))

RECURSIVE JsonUnescape(_)
JsonUnescape(s) ==
    IF s = <<>> THEN Ok(<<>>)
    ELSE IF s[1] = 92
         THEN IF Len(s) < 2 THEN Err("JSONDecodeError")
              ELSE LET rest == JsonUnescape(Tail(Tail(s)))
                   IN  IF rest.ok THEN Ok(<<s[2] + 128>> \o rest.val) ELSE rest
    ELSE IF s[1] = 34 THEN Err("JSONDecodeError")
    ELSE LET rest == JsonUnescape(Tail(s))
         IN  IF rest.ok THEN Ok(<<s[1]>> \o rest.val) ELSE rest

\* json.dumps(data) of a record {"text": value}: the braces and quotes around
\* the escaped value; TypeError for a value json cannot serialise.
JsonDumps(d) ==
    IF d.text = NonSerializable THEN Err("TypeError")
    ELSE Ok(<<123, 34>> \o JsonEscape(d.text) \o <<34, 125>>)

\* json.loads(text)
JsonLoads(s) ==
    IF /\ Len(s) >= 4 /\ s[1] = 123 /\ s[2] = 34
       /\ s[Len(s) - 1] = 34 /\ s[Len(s)] = 125
    THEN LET v == JsonUnescape(SubSeq(s, 3, Len(s) - 2))
         IN  IF v.ok THEN Ok([text |-> v.val]) ELSE v
    ELSE Err("JSONDecodeError")

\* CacheProvider._encode_text
encode_text(method, text) == compress(Utf8Encode(text), method)

\* CacheProvider._decode_text: None when decompression or decoding fails.
decode_text(data) ==
    LET raw == decompress(data)
    IN  IF ~raw.ok THEN None
        ELSE LET text == Utf8Decode(raw.val)
             IN  IF text.ok THEN Some(text.val) ELSE None

\* CacheProvider._encode_dict: the bytes, or the error json.dumps raises.
encode_dict(method, d) ==
    LET s == JsonDumps(d)
    IN  IF s.ok THEN Ok(compress(Utf8Encode(s.val), method)) ELSE s

\* CacheProvider._decode_dict: None when any step of the decoding fails.
decode_dict(data) ==
    LET raw == decompress(data)
    IN  IF ~raw.ok THEN None
        ELSE LET text == Utf8Decode(raw.val)
             IN  IF ~text.ok THEN None
                 ELSE LET d == JsonLoads(text.val)
                      IN  IF d.ok THEN Some(d.val) ELSE None

\* ---------------------------------------------------------------- state
VARIABLES
    now,                \* time.monotonic(), and the remote server's clock
    provider,           \* the process's cache provider
    cooldown_seconds,   \* UserRateLimiter.cooldown_seconds, the window of every check
    rate_limits,        \* InMemoryCacheProvider._rate_limits
    local_rate_limits,  \* LocalCacheProvider._rate_limits (the fallback of ValkeyProvider)
    srv,                \* the remote server's keyspace
    call,               \* the call that returned at this instant, with its result
    accepted,           \* per backend and user: when it last answered not-limited
    task,               \* the concurrent rate checks in flight, each with its position
    rate_limit_lock,    \* _rate_limit_lock of the local backend: its holder, or None
    compression_method, \* CacheProvider._compression_method
    cache,              \* InMemoryCacheProvider._cache
    cache_dict,         \* InMemoryCacheProvider._cache_dict
    local_cache,        \* LocalCacheProvider._cache
    local_cache_dict,   \* LocalCacheProvider._cache_dict
    written,            \* local backend, per store and key: the last put, while in force
    remote_answered,    \* whether a remote attempt has returned in time so far
    codec,              \* the codec call at hand: its input, output and result
    valkey_client,      \* ValkeyProvider._valkey: the client handle, or None
    handles,            \* how many client handles the provider has created
    used,               \* the client handles its operations have worked with
    current,            \* ProviderState.current of the factory: the instance, or None
    provider_lock,      \* _provider_lock of the factory: its holder, or None
    thread,             \* the calls of get_cache_provider in flight, each with its position
    instances,          \* how many providers the factory has constructed
    cache_lock          \* _cache_lock of the local backend: its holder, or None

vars == <<now, provider, cooldown_seconds, rate_limits, local_rate_limits, srv,
          call, accepted, task, rate_limit_lock, compression_method, cache,
          cache_dict, local_cache, local_cache_dict, written, remote_answered,
          codec, valkey_client, handles, used, current, provider_lock, thread,
          instances, cache_lock>>
\* The state of the providers and their callers.
coreVars == <<now, provider, cooldown_seconds, rate_limits, local_rate_limits, srv,
              call, accepted, task, rate_limit_lock, compression_method, cache,
              cache_dict, local_cache, local_cache_dict, written, remote_answered>>
\* The state a provider's operations leave alone.
otherVars == <<codec, valkey_client, handles, used, current, provider_lock, thread,
               instances, cache_lock>>
\* ValkeyProvider's client handle and its history.
clientVars == <<valkey_client, handles, used>>
\* The provider factory and its callers.
factoryVars == <<current, provider_lock, thread, instances>>
config == <<provider, cooldown_seconds, compression_method>>
dataVars == <<cache, cache_dict, local_cache, local_cache_dict, written,
              remote_answered>>
rateVars == <<rate_limits, local_rate_limits, accepted>>
concVars == <<task, rate_limit_lock>>
ghostVars == <<call, accepted>>

NoCall == [op |-> "none"]
NoCodec == [op |-> "none"]
Idle == [pc |-> "idle"]

\* ---------------------------------------- the local rate limiter
\* in_memory.py line 32: the user has a record and it is younger than the window.
InMemoryLimitedBuggy(last_request, t, window_seconds) ==
    last_request /= None /\ (t - last_request[1]) <= window_seconds

\* A deliberately wrong test, for comparison: a window below one second counts
\* as one second.
InMemoryLimitedClamped(last_request, t, window_seconds) ==
    /\ last_request /= None
    /\ (t - last_request[1]) < (IF window_seconds < 1 THEN 1 ELSE window_seconds)

InMemoryLimited(last_request, t, window_seconds) ==
    last_request /= None /\ (t - last_request[1]) < window_seconds

\* InMemoryCacheProvider.is_rate_limited, the body of the critical section
\* run at time t: the result and the timestamp map it leaves.
InMemory_is_rate_limited_shared(limits, user_id, window_seconds, t) ==
    IF \E u \in DOMAIN limits : InMemoryLimited(limits[u], t, window_seconds)
    THEN [ret |-> TRUE, rate_limits |-> limits]
    ELSE [ret |-> FALSE, rate_limits |-> [u \in DOMAIN limits |-> Some(t)]]

InMemory_is_rate_limited(limits, user_id, window_seconds, t) ==
    IF InMemoryLimited(limits[user_id], t, window_seconds)
    THEN [ret |-> TRUE, rate_limits |-> limits]
    ELSE [ret |-> FALSE, rate_limits |-> [limits EXCEPT ![user_id] = Some(t)]]

\* local.py line 30
LocalLimited(last_request, t, window_seconds) ==
    last_request /= None /\ (t - last_request[1]) < window_seconds

\* LocalCacheProvider.is_rate_limited
Local_is_rate_limited(limits, user_id, window_seconds, t) ==
    IF LocalLimited(limits[user_id], t, window_seconds)
    THEN [ret |-> TRUE, rate_limits |-> limits]
    ELSE [ret |-> FALSE, rate_limits |-> [limits EXCEPT ![user_id] = Some(t)]]

\* ---------------------------------------- the remote rate limiter
\* valkey.py line 73: key = f"user:{user_id}:limit"
RateKey(user_id) == "user:" \o ToString(user_id) \o ":limit"

RateKeys == {RateKey(u) : u \in Users}

\* in_memory.py line 41, valkey.py lines 94 and 121: the storage key is the
\* caller's key, ":" and the configured compression method.
\* A deliberately wrong key, for comparison: the caller's key is left out.
cache_key_of_method(key, method) == "cache:" \o method

cache_key(key, method) == key \o ":" \o method

StorageKeys == {cache_key(k, m) : k \in Keys, m \in CompressionMethod}
RemoteKeys == RateKeys \cup StorageKeys
Stores == {"text", "dict"}

\* A key of the server holds <<value, expiry>>, the expiry None or Some(t).
\* The server drops a key once its clock has passed the expiry.
Live(entry, t) == entry /= None /\ (entry[2] = None \/ t <= entry[2][1])

\* INCR key: a missing key counts from 0 and has no expiry.
Incr(keys, key, t) ==
    IF Live(keys[key], t)
    THEN [keys EXCEPT ![key] = <<keys[key][1] + 1, keys[key][2]>>]
    ELSE [keys EXCEPT ![key] = <<1, None>>]

\* A deliberately wrong expiry, for comparison: EXPIRE without NX, which
\* restarts the window of a key on every call.
ExpireAlways(keys, key, seconds, t) ==
    IF Live(keys[key], t)
    THEN IF seconds <= 0
         THEN [keys EXCEPT ![key] = None]
         ELSE [keys EXCEPT ![key] = <<keys[key][1], Some(t + seconds)>>]
    ELSE keys

\* EXPIRE key seconds NX: sets the expiry only when the key has none; an
\* expiry that is not in the future deletes the key.
ExpireNx(keys, key, seconds, t) ==
    IF Live(keys[key], t) /\ keys[key][2] = None
    THEN IF seconds <= 0
         THEN [keys EXCEPT ![key] = None]
         ELSE [keys EXCEPT ![key] = <<keys[key][1], Some(t + seconds)>>]
    ELSE keys

\* valkey.py lines 75-78: pipeline.incr(key); pipeline.expire(key, W, nx=True);
\* pipeline.execute(): the server runs both commands as one transaction at
\* its time t. result[0] is the reply of INCR.
PipelineExecute(keys, key, window_seconds, t) ==
    LET incremented == Incr(keys, key, t)
    IN  [result |-> <<incremented[key][1]>>,
         srv |-> ExpireNx(incremented, key, window_seconds, t)]

\* valkey.py lines 81-84: limited iff the count after the increment exceeds 1.
CountLimitedBuggy(count) == count >= 1

CountLimited(count) == count > 1

\* What a remote attempt can come to under the deadline of _safe_execute:
\* a reply in time; a timeout with the commands not run, or run with the
\* reply late; a connection error; any other exception.
RemoteOutcomes == {"ok", "timeout", "timeout_executed", "connection_error", "error"}

Executed(outcome) == outcome \in {"ok", "timeout_executed"}

\* A deliberately wrong test, for comparison: every operation makes a client.
NeedsClientAlways(handle) == TRUE

\* valkey.py line 51: if self._valkey is None
NeedsClient(handle) == handle = None

\* ValkeyProvider._get_client, which does not suspend: the handle at hand, made
\* by Valkey.from_url if there is none yet; the operation works with it.
GetClient ==
    LET client == IF NeedsClient(valkey_client) THEN Some(handles + 1)
                  ELSE valkey_client
    IN  /\ valkey_client' = client
        /\ handles' = IF NeedsClient(valkey_client) THEN handles + 1 ELSE handles
        /\ used' = used \cup {client[1]}

\* A deliberately wrong _safe_execute, for comparison: an attempt that
\* returned None in time is taken for a failure too.
safe_execute_miss(outcome, remote_result, fallback_result) ==
    IF outcome = "ok" /\ remote_result /= Ok(None) THEN remote_result
    ELSE fallback_result

\* ValkeyProvider._safe_execute: the remote result when the attempt returned
\* in time, else the result of the fallback.
safe_execute(outcome, remote_result, fallback_result) ==
    IF outcome = "ok" THEN remote_result ELSE fallback_result

\* ----------------------------------------------- sequential rate checks
\* The record of a rate check that returned at the current instant. served is
\* the backend that answered; before is when the provider last answered
\* not-limited for the user, and served_before when the answering backend did,
\* both as known before the call.
RateCall(prov, served, user_id, ret) ==
    [op |-> "is_rate_limited", provider |-> prov, served |-> served,
     user |-> user_id, ret |-> ret,
     before |-> accepted[prov][user_id],
     served_before |-> accepted[served][user_id]]

Accept(prov, served, user_id, ret) ==
    IF ret THEN accepted
    ELSE [b \in DOMAIN accepted |->
            IF b \in {prov, served}
            THEN [accepted[b] EXCEPT ![user_id] = Some(now)]
            ELSE accepted[b]]

\* UserRateLimiter.is_limited on an InMemoryCacheProvider: a whole,
\* uninterrupted is_rate_limited call.
InMemoryIsRateLimited(u) ==
    LET r == InMemory_is_rate_limited(rate_limits, u, cooldown_seconds, now)
    IN  /\ provider = "in_memory"
        /\ rate_limits' = r.rate_limits
        /\ call' = RateCall("in_memory", "in_memory", u, r.ret)
        /\ accepted' = Accept("in_memory", "in_memory", u, r.ret)
        /\ UNCHANGED <<now, config, otherVars, local_rate_limits, srv, concVars, dataVars>>

\* The same on a LocalCacheProvider.
LocalIsRateLimited(u) ==
    LET r == Local_is_rate_limited(local_rate_limits, u, cooldown_seconds, now)
    IN  /\ provider = "local"
        /\ local_rate_limits' = r.rate_limits
        /\ call' = RateCall("local", "local", u, r.ret)
        /\ accepted' = Accept("local", "local", u, r.ret)
        /\ UNCHANGED <<now, config, otherVars, rate_limits, srv, concVars, dataVars>>

\* A whole ValkeyProvider.is_rate_limited call whose remote attempt comes to
\* outcome: the pipeline runs on the server if the attempt got that far, and
\* the fallback runs if the attempt did not return in time.
ValkeyIsRateLimited(u, outcome) ==
    LET remote == PipelineExecute(srv, RateKey(u), cooldown_seconds, now)
        local == Local_is_rate_limited(local_rate_limits, u, cooldown_seconds, now)
        served == IF outcome = "ok" THEN "remote" ELSE "local"
        ret == safe_execute(outcome, CountLimited(remote.result[1]), local.ret)
    IN  /\ provider = "valkey"
        /\ Executed(outcome) => remote.result[1] <= MaxCount
        /\ srv' = IF Executed(outcome) THEN remote.srv ELSE srv
        /\ local_rate_limits' =
              IF outcome = "ok" THEN local_rate_limits ELSE local.rate_limits
        /\ call' = RateCall("valkey", served, u, ret)
        /\ accepted' = Accept("valkey", served, u, ret)
        /\ GetClient
        /\ UNCHANGED <<now, config, codec, factoryVars, cache_lock, rate_limits, concVars, dataVars>>

\* The server's active expiry: the keys whose expiry has passed are gone.
Purge(keys, t) == [k \in DOMAIN keys |-> IF Live(keys[k], t) THEN keys[k] ELSE None]

\* The puts whose time to live has not run out at t.
InForce(puts, t) ==
    [s \in DOMAIN puts |-> [k \in DOMAIN puts[s] |->
        IF puts[s][k] /= None /\ t <= puts[s][k][2] THEN puts[s][k] ELSE None]]

\* The clock advances: the instant of the last call is over, and the server
\* has dropped the keys that expired.
Tick ==
    /\ now < MaxTime
    /\ now' = now + 1
    /\ srv' = Purge(srv, now + 1)
    /\ call' = NoCall
    /\ written' = InForce(written, now + 1)
    /\ UNCHANGED <<config, otherVars, rate_limits, local_rate_limits, accepted, concVars,
                   cache, cache_dict, local_cache, local_cache_dict, remote_answered>>

Backends == {"in_memory", "valkey", "local", "remote"}

\* After construction: empty maps, no call made, no task launched. The
\* process holds one provider: the InMemoryCacheProvider or ValkeyProvider
\* that get_cache_provider builds, or a LocalCacheProvider built directly.
ConstructedOver(keys) ==
    /\ now = 0
    /\ provider \in {"in_memory", "local", "valkey"}
    /\ rate_limits = [u \in Users |-> None]
    /\ local_rate_limits = [u \in Users |-> None]
    /\ srv = [k \in RemoteKeys |-> None]
    /\ call = NoCall
    /\ accepted = [b \in Backends |-> [u \in Users |-> None]]
    /\ task = [t \in Tasks |-> Idle]
    /\ rate_limit_lock = None
    /\ cache = [k \in keys |-> None]
    /\ cache_dict = [k \in keys |-> None]
    /\ local_cache = [k \in Keys |-> None]
    /\ local_cache_dict = [k \in Keys |-> None]
    /\ written = [s \in Stores |-> [k \in Keys |-> None]]
    /\ remote_answered = FALSE
    /\ codec = NoCodec
    /\ valkey_client = None
    /\ handles = 0
    /\ used = {}
    /\ current = None
    /\ provider_lock = None
    /\ thread = [th \in Callers |-> Idle]
    /\ instances = 0
    /\ cache_lock = None

\* The provider's stores hold the keys its callers use.
Constructed == ConstructedOver(StorageKeys)

\* The rate limiter's settings: any window (RATE_LIMIT_WINDOW_SECONDS), the
\* default compression method.
Init ==
    /\ Constructed
    /\ cooldown_seconds \in Windows
    /\ compression_method = "gzip"

\* Sequential rate checks through the process's provider.
NextRate ==
    \/ Tick
    \/ \E u \in Users : InMemoryIsRateLimited(u)
    \/ \E u \in Users : LocalIsRateLimited(u)
    \/ \E u \in Users, o \in RemoteOutcomes : ValkeyIsRateLimited(u, o)

SpecRate == Init /\ [][NextRate]_vars

\* The timestamp map of a local backend.
LimitsOf(backend) ==
    IF backend = "in_memory" THEN rate_limits ELSE local_rate_limits

\* C1: on a local backend, with a window W > 0, the first rate check of a
\* user returns not-limited; a check less than W after the user's last
\* accepted check returns limited; a check W or more after it returns
\* not-limited, and an accepted check's time is the new window start.
C1_SlidingWindow ==
    (/\ call.op = "is_rate_limited"
     /\ call.served \in {"in_memory", "local"}
     /\ cooldown_seconds > 0) =>
        LET last == call.served_before
        IN  /\ last = None => call.ret = FALSE
            /\ (last /= None /\ now - last[1] < cooldown_seconds)
                  => call.ret = TRUE
            /\ (last /= None /\ now - last[1] >= cooldown_seconds)
                  => call.ret = FALSE
            /\ call.ret = FALSE => LimitsOf(call.served)[call.user] = Some(now)
            /\ call.ret = TRUE => LimitsOf(call.served)[call.user] = last

\* A check after the cooldown was accepted, following an accepted one.
C1_Witness ==
    /\ call.op = "is_rate_limited" /\ call.served = "in_memory"
    /\ cooldown_seconds > 0 /\ call.served_before /= None
    /\ now - call.served_before[1] >= cooldown_seconds
    /\ call.ret = FALSE

\* ------------------------------------------------ concurrent rate checks
\* Each task is one UserRateLimiter.is_limited(user) call on the process's
\* provider. Its positions are the places where another task can run:
\*   "remote"   the pipeline is sent and awaited under the deadline (valkey.py 57)
\*   "replied"  the server has run the transaction, the reply is on its way
\*   "acquire"  waiting for _rate_limit_lock (in_memory.py 29, local.py 27)
\*   "read"     in the critical section, now and last_request read (lines 30-31)
\*   "done"     returned

\* async with self._rate_limit_lock: the lock is taken only when it is free.
LockFreeBuggy(lock) == TRUE

LockFree(lock) == lock = None

\* The local backend a task ends on: the provider itself, or the fallback.
LocalBackend == IF provider = "in_memory" THEN "in_memory" ELSE "local"

\* Line 32 of in_memory.py, line 30 of local.py.
Limited(backend, last_request, t, window_seconds) ==
    IF backend = "in_memory"
    THEN InMemoryLimited(last_request, t, window_seconds)
    ELSE LocalLimited(last_request, t, window_seconds)

\* The call is made: a ValkeyProvider starts its remote attempt, a local
\* provider goes for its lock.
Launch(t, u) ==
    /\ task[t].pc = "idle"
    /\ task' = [task EXCEPT ![t] =
          [pc |-> IF provider = "valkey" THEN "remote" ELSE "acquire", user |-> u]]
    /\ IF provider = "valkey" THEN GetClient ELSE UNCHANGED clientVars
    /\ UNCHANGED <<now, config, codec, factoryVars, cache_lock, rate_limits, local_rate_limits, srv,
                   rate_limit_lock, ghostVars, dataVars>>

\* The server runs the task's INCR / EXPIRE NX transaction.
ServerExecute(t) ==
    LET remote == PipelineExecute(srv, RateKey(task[t].user), cooldown_seconds, now)
    IN  /\ task[t].pc = "remote"
        /\ remote.result[1] <= MaxCount
        /\ srv' = remote.srv
        /\ task' = [task EXCEPT ![t] =
              [pc |-> "replied", user |-> task[t].user,
               count |-> remote.result[1], at |-> now]]
        /\ UNCHANGED <<now, config, otherVars, rate_limits, local_rate_limits,
                       rate_limit_lock, ghostVars, dataVars>>

\* The reply arrives within the deadline: valkey.py lines 81-84 decide, and
\* _safe_execute returns that result.
RemoteReturn(t) ==
    /\ task[t].pc = "replied"
    /\ task' = [task EXCEPT ![t] =
          [pc |-> "done", served |-> "remote", user |-> task[t].user,
           count |-> task[t].count, at |-> task[t].at,
           ret |-> safe_execute("ok", CountLimited(task[t].count), FALSE)]]
    /\ UNCHANGED <<now, config, otherVars, rate_limits, local_rate_limits, srv,
                   rate_limit_lock, ghostVars, dataVars>>

\* A deliberately wrong failure branch, for comparison: the attempt is made
\* again instead of the fallback.
RemoteFailRetry(t, outcome) ==
    /\ outcome /= "ok"
    /\ task[t].pc = IF outcome = "timeout_executed" THEN "replied" ELSE "remote"
    /\ task' = [task EXCEPT ![t] = [pc |-> "remote", user |-> task[t].user]]
    /\ UNCHANGED <<now, config, otherVars, rate_limits, local_rate_limits, srv,
                   rate_limit_lock, ghostVars, dataVars>>

\* The remote attempt fails: the deadline passes (before or after the server
\* ran the transaction) or the connection raises before the commands are
\* sent. _safe_execute calls the fallback (valkey.py lines 58-66).
RemoteFail(t, outcome) ==
    /\ outcome /= "ok"
    /\ task[t].pc = IF outcome = "timeout_executed" THEN "replied" ELSE "remote"
    /\ task' = [task EXCEPT ![t] = [pc |-> "acquire", user |-> task[t].user]]
    /\ UNCHANGED <<now, config, otherVars, rate_limits, local_rate_limits, srv,
                   rate_limit_lock, ghostVars, dataVars>>

\* __aenter__ of the lock, which does not suspend when the lock is free, then
\* now = time.monotonic(); last_request = self._rate_limits.get(user_id)
Enter(t) ==
    /\ task[t].pc = "acquire"
    /\ LockFree(rate_limit_lock)
    /\ rate_limit_lock' = Some(t)
    /\ task' = [task EXCEPT ![t] =
          [pc |-> "read", user |-> task[t].user, t |-> now,
           last_request |-> LimitsOf(LocalBackend)[task[t].user]]]
    /\ UNCHANGED <<now, config, otherVars, rate_limits, local_rate_limits, srv, ghostVars, dataVars>>

\* The comparison, the write when the call is accepted, the return, and
\* __aexit__ of the lock.
Decide(t) ==
    LET me == task[t]
        limited == Limited(LocalBackend, me.last_request, me.t, cooldown_seconds)
        stamped == [LimitsOf(LocalBackend) EXCEPT ![me.user] = Some(me.t)]
    IN  /\ me.pc = "read"
        /\ rate_limits' =
              IF ~limited /\ LocalBackend = "in_memory" THEN stamped ELSE rate_limits
        /\ local_rate_limits' =
              IF ~limited /\ LocalBackend = "local" THEN stamped ELSE local_rate_limits
        /\ rate_limit_lock' = None
        /\ task' = [task EXCEPT ![t] =
              [pc |-> "done", served |-> LocalBackend, user |-> me.user,
               at |-> me.t, ret |-> limited]]
        /\ UNCHANGED <<now, config, otherVars, srv, ghostVars, dataVars>>

\* The clock advances while calls are in flight.
ConcTick ==
    /\ now < MaxTime
    /\ now' = now + 1
    /\ srv' = Purge(srv, now + 1)
    /\ UNCHANGED <<config, otherVars, rate_limits, local_rate_limits, ghostVars, concVars, dataVars>>

NextConc ==
    \/ ConcTick
    \/ \E t \in Tasks, u \in Users : Launch(t, u)
    \/ \E t \in Tasks : ServerExecute(t)
    \/ \E t \in Tasks : RemoteReturn(t)
    \/ \E t \in Tasks, o \in RemoteOutcomes : RemoteFail(t, o)
    \/ \E t \in Tasks : Enter(t)
    \/ \E t \in Tasks : Decide(t)

SpecConc == Init /\ [][NextConc]_vars

Done(t) == task[t].pc = "done"
LocallyServed(t) == Done(t) /\ task[t].served \in {"in_memory", "local"}

\* C2: N concurrent rate checks of one user with no stored record, all
\* answered by the local backend within the window, give exactly one
\* not-limited result and N-1 limited ones; and the critical section holds
\* the read-compare-write: no two tasks are inside it together.
C2_ExactlyOnce ==
    /\ \A u \in Users :
          (/\ \A t \in Tasks : LocallyServed(t) /\ task[t].user = u
           /\ now < cooldown_seconds)
          => Cardinality({t \in Tasks : task[t].ret = FALSE}) = 1
    /\ Cardinality({t \in Tasks : task[t].pc = "read"}) <= 1

\* All N calls were for one user of an InMemoryCacheProvider and are done.
C2_Witness ==
    /\ provider = "in_memory"
    /\ \A t \in Tasks : LocallyServed(t) /\ task[t].user = 123
    /\ now < cooldown_seconds
    /\ \E t \in Tasks : task[t].ret = TRUE

\* A task that holds the server's reply to its transaction.
HasCount(t) ==
    task[t].pc = "replied" \/ (Done(t) /\ task[t].served = "remote")

\* C3: a remote rate check runs INCR and EXPIRE NX (W seconds) on
\* user:<u>:limit as one transaction, so no state shows a counter without an
\* expiry; the call answered by the server returns limited iff the count
\* after the increment is greater than 1 and not-limited iff it is exactly 1;
\* and two calls for one user never both get count 1 within one window.
C3_RemoteAtomic ==
    /\ \A u \in Users :
          srv[RateKey(u)] /= None =>
              /\ srv[RateKey(u)][2] /= None
              /\ srv[RateKey(u)][2][1] <= now + cooldown_seconds
    /\ \A t \in Tasks :
          (Done(t) /\ task[t].served = "remote") =>
              /\ task[t].ret = TRUE <=> task[t].count > 1
              /\ task[t].ret = FALSE <=> task[t].count = 1
    /\ \A t1, t2 \in Tasks :
          (/\ t1 /= t2 /\ cooldown_seconds > 0
           /\ HasCount(t1) /\ HasCount(t2)
           /\ task[t1].user = task[t2].user
           /\ task[t1].count = 1 /\ task[t2].count = 1
           /\ task[t1].at <= task[t2].at)
          => task[t2].at > task[t1].at + cooldown_seconds

\* Two concurrent calls of one user were both answered by the server, at the
\* same instant: one not-limited with count 1, the other limited.
C3_Witness ==
    \E t1, t2 \in Tasks :
        /\ t1 /= t2 /\ cooldown_seconds > 0
        /\ Done(t1) /\ task[t1].served = "remote"
        /\ Done(t2) /\ task[t2].served = "remote"
        /\ task[t1].user = task[t2].user /\ task[t1].at = task[t2].at
        /\ task[t1].ret = FALSE /\ task[t2].ret = TRUE

\* C4: through ValkeyProvider, whatever the remote attempts come to, a rate
\* check less than W after the user's last not-limited answer is limited.
C4_FacadeCooldown ==
    (/\ call.op = "is_rate_limited" /\ call.provider = "valkey"
     /\ call.before /= None
     /\ now - call.before[1] < cooldown_seconds)
    => call.ret = TRUE

\* The result and the written record of a rate check of u on each backend.
RateResult(limits, local_limits, keys, u) ==
    <<InMemory_is_rate_limited(limits, u, cooldown_seconds, now).ret,
      InMemory_is_rate_limited(limits, u, cooldown_seconds, now).rate_limits[u],
      Local_is_rate_limited(local_limits, u, cooldown_seconds, now).ret,
      Local_is_rate_limited(local_limits, u, cooldown_seconds, now).rate_limits[u],
      PipelineExecute(keys, RateKey(u), cooldown_seconds, now).result,
      PipelineExecute(keys, RateKey(u), cooldown_seconds, now).srv[RateKey(u)]>>

\* C10: a rate check of user u1 changes no other user's record, on the local
\* maps and on the server, and its result does not depend on another user's
\* record: it is the same with that record erased.
C10_Independence ==
    [][call'.op = "is_rate_limited" =>
        \A u2 \in Users \ {call'.user} :
            /\ rate_limits'[u2] = rate_limits[u2]
            /\ local_rate_limits'[u2] = local_rate_limits[u2]
            /\ srv'[RateKey(u2)] = srv[RateKey(u2)]
            /\ RateResult(rate_limits, local_rate_limits, srv, call'.user)
               = RateResult([rate_limits EXCEPT ![u2] = None],
                            [local_rate_limits EXCEPT ![u2] = None],
                            [srv EXCEPT ![RateKey(u2)] = None], call'.user)
      ]_vars

\* A user is accepted while another user is inside the cooldown.
C10_Witness ==
    /\ call.op = "is_rate_limited" /\ call.ret = FALSE
    /\ cooldown_seconds > 0
    /\ \E u2 \in Users \ {call.user} :
          \/ InMemoryLimited(rate_limits[u2], now, cooldown_seconds)
          \/ /\ provider = "valkey" /\ call.served = "remote"
             /\ srv[RateKey(u2)] /= None /\ srv[RateKey(u2)][1] > 1

\* ------------------------------------------------ cache entries, local
\* The structured records a caller stores; the last holds a value json.dumps
\* refuses.
Dicts == {[text |-> x] : x \in Texts \cup {NonSerializable}}

TextOps == {"get", "put", "get_summary", "set_summary"}
DictOps == {"get_dict", "put_dict", "get_transcript", "set_transcript"}
GetOps == {"get", "get_dict", "get_summary", "get_transcript"}
PutOps == {"put", "put_dict", "set_summary", "set_transcript"}
DataOps == GetOps \cup PutOps
StoreOf(op) == IF op \in TextOps THEN "text" ELSE "dict"

\* A deliberately wrong expiry test, for comparison: the entry is gone at
\* its expiration instant already.
InMemoryExpiredEarly(t, expires_at) == t >= expires_at

\* in_memory.py line 47 (and 67; local.py lines 43 and 60):
\* time.monotonic() > expires_at
InMemoryExpired(t, expires_at) == t > expires_at

\* A get that leaves the expired entry in place, for comparison.
InMemory_get_lazy(store, method, key, t) ==
    LET cached == store[cache_key(key, method)]
    IN  IF cached = None \/ InMemoryExpired(t, cached[2])
        THEN [ret |-> Ok(None), cache |-> store]
        ELSE [ret |-> Ok(decode_text(cached[1])), cache |-> store]

\* InMemoryCacheProvider.get: the result and the store it leaves.
InMemory_get(store, method, key, t) ==
    LET ck == cache_key(key, method)
        cached == store[ck]
    IN  IF cached = None THEN [ret |-> Ok(None), cache |-> store]
        ELSE IF InMemoryExpired(t, cached[2])
             THEN [ret |-> Ok(None), cache |-> [store EXCEPT ![ck] = None]]
             ELSE [ret |-> Ok(decode_text(cached[1])), cache |-> store]

\* A put that never shortens the life of an entry, for comparison.
InMemory_put_keep(store, method, key, text, ttl_seconds, t) ==
    LET ck == cache_key(key, method)
        expires == IF store[ck] /= None /\ store[ck][2] > t + ttl_seconds
                   THEN store[ck][2] ELSE t + ttl_seconds
    IN  [ret |-> Ok(None),
         cache |-> [store EXCEPT ![ck] = <<encode_text(method, text), expires>>]]

\* InMemoryCacheProvider.put
InMemory_put(store, method, key, text, ttl_seconds, t) ==
    [ret |-> Ok(None),
     cache |-> [store EXCEPT ![cache_key(key, method)] =
                   <<encode_text(method, text), t + ttl_seconds>>]]

\* InMemoryCacheProvider.get_dict
InMemory_get_dict(store, method, key, t) ==
    LET ck == cache_key(key, method)
        cached == store[ck]
    IN  IF cached = None THEN [ret |-> Ok(None), cache |-> store]
        ELSE IF InMemoryExpired(t, cached[2])
             THEN [ret |-> Ok(None), cache |-> [store EXCEPT ![ck] = None]]
             ELSE [ret |-> Ok(decode_dict(cached[1])), cache |-> store]

\* InMemoryCacheProvider.put_dict: _encode_dict raises before the store is
\* touched when json.dumps refuses the record.
InMemory_put_dict(store, method, key, data, ttl_seconds, t) ==
    LET compressed == encode_dict(method, data)
    IN  IF ~compressed.ok THEN [ret |-> compressed, cache |-> store]
        ELSE [ret |-> Ok(None),
              cache |-> [store EXCEPT ![cache_key(key, method)] =
                            <<compressed.val, t + ttl_seconds>>]]

\* LocalCacheProvider.get and get_dict: the stored value as it is.
Local_get(store, key, t) ==
    LET cached == store[key]
    IN  IF cached = None THEN [ret |-> Ok(None), cache |-> store]
        ELSE IF InMemoryExpired(t, cached[2])
             THEN [ret |-> Ok(None), cache |-> [store EXCEPT ![key] = None]]
             ELSE [ret |-> Ok(Some(cached[1])), cache |-> store]

\* LocalCacheProvider.put and put_dict
Local_put(store, key, value, ttl_seconds, t) ==
    [ret |-> Ok(None),
     cache |-> [store EXCEPT ![key] = <<value, t + ttl_seconds>>]]

\* How the expiry of the entry a call finds compares with t.
Prior(expires_at, t) ==
    IF expires_at = None THEN "none"
    ELSE IF expires_at[1] < t THEN "earlier"
    ELSE IF expires_at[1] > t THEN "later"
    ELSE "same"

\* The expiry of a local entry, None for no entry.
ExpiryOf(entry) == IF entry = None THEN None ELSE Some(entry[2])

\* The record of a cache call that returned at the current instant: served is
\* the backend that answered; put is the value and expiry of a put that
\* returned; prior is how the expiry of the entry the call found compares with
\* the new expiry of a put, with the time of a get.
DataCall(op, served, key, ret, put, prior) ==
    [op |-> op, provider |-> provider, served |-> served, key |-> key,
     ret |-> ret, put |-> IF ret.ok THEN put ELSE None,
     prior |-> IF ret.ok THEN prior ELSE "none"]

\* The last put on a key of a local backend that returned.
Written(op, key, value, ttl_seconds) ==
    [written EXCEPT ![StoreOf(op)][key] = <<value, now + ttl_seconds>>]

InMemoryGet(k) ==
    LET r == InMemory_get(cache, compression_method, k, now)
    IN  /\ provider = "in_memory"
        /\ cache' = r.cache
        /\ call' = DataCall("get", "in_memory", k, r.ret, None,
                Prior(ExpiryOf(cache[cache_key(k, compression_method)]), now))
        /\ UNCHANGED <<now, config, otherVars, rateVars, srv, concVars, cache_dict,
                       local_cache, local_cache_dict, written, remote_answered>>

InMemoryPut(k, text, ttl) ==
    LET r == InMemory_put(cache, compression_method, k, text, ttl, now)
    IN  /\ provider = "in_memory"
        /\ cache' = r.cache
        /\ call' = DataCall("put", "in_memory", k, r.ret, <<text, now + ttl>>,
                Prior(ExpiryOf(cache[cache_key(k, compression_method)]), now + ttl))
        /\ written' = Written("put", k, text, ttl)
        /\ UNCHANGED <<now, config, otherVars, rateVars, srv, concVars, cache_dict,
                       local_cache, local_cache_dict, remote_answered>>

InMemoryGetDict(k) ==
    LET r == InMemory_get_dict(cache_dict, compression_method, k, now)
    IN  /\ provider = "in_memory"
        /\ cache_dict' = r.cache
        /\ call' = DataCall("get_dict", "in_memory", k, r.ret, None,
                Prior(ExpiryOf(cache_dict[cache_key(k, compression_method)]), now))
        /\ UNCHANGED <<now, config, otherVars, rateVars, srv, concVars, cache,
                       local_cache, local_cache_dict, written, remote_answered>>

InMemoryPutDict(k, data, ttl) ==
    LET r == InMemory_put_dict(cache_dict, compression_method, k, data, ttl, now)
    IN  /\ provider = "in_memory"
        /\ cache_dict' = r.cache
        /\ call' = DataCall("put_dict", "in_memory", k, r.ret, <<data, now + ttl>>,
                Prior(ExpiryOf(cache_dict[cache_key(k, compression_method)]), now + ttl))
        /\ written' = IF r.ret.ok THEN Written("put_dict", k, data, ttl) ELSE written
        /\ UNCHANGED <<now, config, otherVars, rateVars, srv, concVars, cache,
                       local_cache, local_cache_dict, remote_answered>>

LocalGet(k) ==
    LET r == Local_get(local_cache, k, now)
    IN  /\ provider = "local"
        /\ local_cache' = r.cache
        /\ call' = DataCall("get", "local", k, r.ret, None,
                            Prior(ExpiryOf(local_cache[k]), now))
        /\ UNCHANGED <<now, config, otherVars, rateVars, srv, concVars, cache, cache_dict,
                       local_cache_dict, written, remote_answered>>

LocalPut(k, text, ttl) ==
    LET r == Local_put(local_cache, k, text, ttl, now)
    IN  /\ provider = "local"
        /\ local_cache' = r.cache
        /\ call' = DataCall("put", "local", k, r.ret, <<text, now + ttl>>,
                            Prior(ExpiryOf(local_cache[k]), now + ttl))
        /\ written' = Written("put", k, text, ttl)
        /\ UNCHANGED <<now, config, otherVars, rateVars, srv, concVars, cache, cache_dict,
                       local_cache_dict, remote_answered>>

LocalGetDict(k) ==
    LET r == Local_get(local_cache_dict, k, now)
    IN  /\ provider = "local"
        /\ local_cache_dict' = r.cache
        /\ call' = DataCall("get_dict", "local", k, r.ret, None,
                            Prior(ExpiryOf(local_cache_dict[k]), now))
        /\ UNCHANGED <<now, config, otherVars, rateVars, srv, concVars, cache, cache_dict,
                       local_cache, written, remote_answered>>

LocalPutDict(k, data, ttl) ==
    LET r == Local_put(local_cache_dict, k, data, ttl, now)
    IN  /\ provider = "local"
        /\ local_cache_dict' = r.cache
        /\ call' = DataCall("put_dict", "local", k, r.ret, <<data, now + ttl>>,
                            Prior(ExpiryOf(local_cache_dict[k]), now + ttl))
        /\ written' = Written("put_dict", k, data, ttl)
        /\ UNCHANGED <<now, config, otherVars, rateVars, srv, concVars, cache, cache_dict,
                       local_cache, remote_answered>>

\* ----------------------------------------------- cache entries, remote
\* A deliberately wrong key, for comparison: the suffix is that of the
\* default method, whatever the provider is configured with.
SummaryKey_default(video_hash, language_code, method) ==
    "summary:" \o video_hash \o ":" \o language_code \o ":" \o "gzip"

\* valkey.py lines 94 and 109
SummaryKey(video_hash, language_code, method) ==
    "summary:" \o video_hash \o ":" \o language_code \o ":" \o method

\* valkey.py lines 121 and 136
TranscriptKey(video_hash, method) == "transcript:" \o video_hash \o ":" \o method

\* GET key: the value of a live key.
RemoteGet(keys, key, t) == IF Live(keys[key], t) THEN Some(keys[key][1]) ELSE None

\* The expiry of a key of the server, None for no key or no expiry.
RemoteExpiry(keys, key) == IF keys[key] = None THEN None ELSE keys[key][2]

\* SETEX key seconds value: the server refuses a non-positive expire time.
Setex(keys, key, seconds, value, t) ==
    IF seconds <= 0 THEN [reply |-> Err("ResponseError"), srv |-> keys]
    ELSE [reply |-> Ok(None),
          srv |-> [keys EXCEPT ![key] = <<value, Some(t + seconds)>>]]

\* The methods LocalCacheProvider defines (local.py lines 26-68).
LocalCacheProviderMethods == {"is_rate_limited", "get", "put", "get_dict", "put_dict"}

\* self._local_fallback.<name>: the attribute lookup of the fallback lambda.
GetAttr(name) ==
    IF name \in LocalCacheProviderMethods THEN Ok(name) ELSE Err("AttributeError")

\* An exception the attempt itself raises ends in the `except Exception`
\* branch of _safe_execute.
Raised(outcome, attempt) == IF outcome = "ok" /\ ~attempt.ok THEN "error" ELSE outcome

\* _valkey_get of get_summary (valkey.py lines 92-99)
ValkeyGetSummaryAttempt(keys, key, t) ==
    LET val == RemoteGet(keys, key, t)
    IN  IF val = None THEN Ok(None)
        ELSE LET decompressed == decompress(val[1])
             IN  IF ~decompressed.ok THEN decompressed
                 ELSE LET text == Utf8Decode(decompressed.val)
                      IN  IF text.ok THEN Ok(Some(text.val)) ELSE text

\* _valkey_get of get_transcript (valkey.py lines 119-126)
ValkeyGetTranscriptAttempt(keys, key, t) ==
    LET val == RemoteGet(keys, key, t)
    IN  IF val = None THEN Ok(None)
        ELSE LET decompressed == decompress(val[1])
             IN  IF ~decompressed.ok THEN decompressed
                 ELSE LET text == Utf8Decode(decompressed.val)
                      IN  IF ~text.ok THEN text
                          ELSE LET d == JsonLoads(text.val)
                               IN  IF d.ok THEN Ok(Some(d.val)) ELSE d

\* _valkey_set of set_summary (valkey.py lines 107-111)
ValkeySetSummaryAttempt(keys, key, method, summary, ttl_seconds, t) ==
    Setex(keys, key, ttl_seconds, compress(Utf8Encode(summary), method), t)

\* _valkey_set of set_transcript (valkey.py lines 134-138): json.dumps raises
\* before anything is sent.
ValkeySetTranscriptAttempt(keys, key, method, transcript_data, ttl_seconds, t) ==
    LET s == JsonDumps(transcript_data)
    IN  IF ~s.ok THEN [reply |-> s, srv |-> keys]
        ELSE Setex(keys, key, ttl_seconds, compress(Utf8Encode(s.val), method), t)

\* The backend whose result the facade returned.
Served(outcome, attempt) == IF Raised(outcome, attempt) = "ok" THEN "remote" ELSE "local"

VideoHashes == {"h1"}
Languages == {"en"}

\* Whether some remote attempt has returned a result so far.
Answered(outcome, attempt) == remote_answered \/ (outcome = "ok" /\ attempt.ok)

ValkeyGetSummary(video_hash, language_code, outcome) ==
    LET key == SummaryKey(video_hash, language_code, compression_method)
        k == "summary:" \o video_hash \o ":" \o language_code
        attempt == ValkeyGetSummaryAttempt(srv, key, now)
        ret == safe_execute(Raised(outcome, attempt), attempt, GetAttr("get_summary"))
    IN  /\ provider = "valkey"
        /\ call' = DataCall("get_summary", Served(outcome, attempt), k, ret, None,
                            Prior(RemoteExpiry(srv, key), now))
        /\ remote_answered' = Answered(outcome, attempt)
        /\ GetClient
        /\ UNCHANGED <<now, config, codec, factoryVars, cache_lock, rateVars, srv, concVars, cache, cache_dict,
                       local_cache, local_cache_dict, written>>

ValkeySetSummary(video_hash, language_code, summary, ttl, outcome) ==
    LET key == SummaryKey(video_hash, language_code, compression_method)
        k == "summary:" \o video_hash \o ":" \o language_code
        attempt == ValkeySetSummaryAttempt(srv, key, compression_method, summary, ttl, now)
        ret == safe_execute(Raised(outcome, attempt.reply), attempt.reply,
                            GetAttr("set_summary"))
    IN  /\ provider = "valkey"
        /\ srv' = IF Executed(outcome) THEN attempt.srv ELSE srv
        /\ call' = DataCall("set_summary", Served(outcome, attempt.reply), k, ret,
                            <<summary, now + ttl>>, Prior(RemoteExpiry(srv, key), now + ttl))
        /\ remote_answered' = Answered(outcome, attempt.reply)
        /\ GetClient
        /\ UNCHANGED <<now, config, codec, factoryVars, cache_lock, rateVars, concVars, cache, cache_dict,
                       local_cache, local_cache_dict, written>>

ValkeyGetTranscript(video_hash, outcome) ==
    LET key == TranscriptKey(video_hash, compression_method)
        k == "transcript:" \o video_hash
        attempt == ValkeyGetTranscriptAttempt(srv, key, now)
        ret == safe_execute(Raised(outcome, attempt), attempt, GetAttr("get_transcript"))
    IN  /\ provider = "valkey"
        /\ call' = DataCall("get_transcript", Served(outcome, attempt), k, ret, None,
                            Prior(RemoteExpiry(srv, key), now))
        /\ remote_answered' = Answered(outcome, attempt)
        /\ GetClient
        /\ UNCHANGED <<now, config, codec, factoryVars, cache_lock, rateVars, srv, concVars, cache, cache_dict,
                       local_cache, local_cache_dict, written>>

ValkeySetTranscript(video_hash, transcript_data, ttl, outcome) ==
    LET key == TranscriptKey(video_hash, compression_method)
        k == "transcript:" \o video_hash
        attempt == ValkeySetTranscriptAttempt(srv, key, compression_method,
                                              transcript_data, ttl, now)
        ret == safe_execute(Raised(outcome, attempt.reply), attempt.reply,
                            GetAttr("set_transcript"))
    IN  /\ provider = "valkey"
        /\ srv' = IF Executed(outcome) THEN attempt.srv ELSE srv
        /\ call' = DataCall("set_transcript", Served(outcome, attempt.reply), k, ret,
                <<transcript_data, now + ttl>>, Prior(RemoteExpiry(srv, key), now + ttl))
        /\ remote_answered' = Answered(outcome, attempt.reply)
        /\ GetClient
        /\ UNCHANGED <<now, config, codec, factoryVars, cache_lock, rateVars, concVars, cache, cache_dict,
                       local_cache, local_cache_dict, written>>

\* RATE_LIMIT_WINDOW_SECONDS, the default.
rate_limit_window == 10

\* A provider of any compression method; LocalCacheProvider takes none.
InitCache ==
    /\ Constructed
    /\ cooldown_seconds = rate_limit_window
    /\ compression_method \in CompressionMethod
    /\ provider = "local" => compression_method = "gzip"

NextCache ==
    \/ Tick
    \/ \E k \in TextKeys : InMemoryGet(k)
    \/ \E k \in TextKeys, text \in Texts, ttl \in Ttls : InMemoryPut(k, text, ttl)
    \/ \E k \in DictKeys : InMemoryGetDict(k)
    \/ \E k \in DictKeys, d \in Dicts, ttl \in Ttls : InMemoryPutDict(k, d, ttl)
    \/ \E k \in TextKeys : LocalGet(k)
    \/ \E k \in TextKeys, text \in Texts, ttl \in Ttls : LocalPut(k, text, ttl)
    \/ \E k \in DictKeys : LocalGetDict(k)
    \/ \E k \in DictKeys, d \in Dicts, ttl \in Ttls : LocalPutDict(k, d, ttl)
    \/ \E h \in VideoHashes, l \in Languages, o \in RemoteOutcomes :
          ValkeyGetSummary(h, l, o)
    \/ \E h \in VideoHashes, l \in Languages, text \in Texts, ttl \in Ttls,
          o \in RemoteOutcomes : ValkeySetSummary(h, l, text, ttl, o)
    \/ \E h \in VideoHashes, o \in RemoteOutcomes : ValkeyGetTranscript(h, o)
    \/ \E h \in VideoHashes, d \in Dicts, ttl \in Ttls, o \in RemoteOutcomes :
          ValkeySetTranscript(h, d, ttl, o)

SpecCache == InitCache /\ [][NextCache]_vars

\* The entry of a local backend an operation on a key works on.
Entry(c, cd, lc, lcd, prov, op, key) ==
    IF prov = "in_memory"
    THEN IF op \in TextOps THEN c[cache_key(key, compression_method)]
         ELSE cd[cache_key(key, compression_method)]
    ELSE IF op \in TextOps THEN lc[key] ELSE lcd[key]

\* What a get of operation op's store returns at time t, and the store it
\* leaves, on the provider's backend.
GetAt(prov, op, key, t) ==
    IF prov = "in_memory"
    THEN IF op \in TextOps THEN InMemory_get(cache, compression_method, key, t)
         ELSE InMemory_get_dict(cache_dict, compression_method, key, t)
    ELSE IF prov = "local"
    THEN IF op \in TextOps THEN Local_get(local_cache, key, t)
         ELSE Local_get(local_cache_dict, key, t)
    ELSE IF op \in TextOps
    THEN [ret |-> ValkeyGetSummaryAttempt(srv, cache_key(key, compression_method), t),
          cache |-> srv]
    ELSE [ret |-> ValkeyGetTranscriptAttempt(srv, cache_key(key, compression_method), t),
          cache |-> srv]

\* C7: on a local backend (InMemoryCacheProvider, LocalCacheProvider), for text
\* and for records: a get of k returns the value v of the last put(k, v, ttl),
\* made at t0, at every time t <= t0 + ttl, and returns absent at every later
\* time, as it does for a key never put.
C7_TtlExpiry ==
    (/\ call.op \in {"get", "get_dict"}
     /\ call.provider \in {"in_memory", "local"})
    => LET w == written[StoreOf(call.op)][call.key]
       IN  call.ret = IF w /= None /\ now <= w[2] THEN Ok(Some(w[1])) ELSE Ok(None)

\* A get_dict of the InMemoryCacheProvider at the very expiration instant of
\* the record returned it.
C7_Witness ==
    /\ call.op = "get_dict" /\ call.provider = "in_memory"
    /\ call.prior = "same" /\ call.ret.ok /\ call.ret.val /= None
    /\ now > 0

\* The entries of a store change in two ways only: a put makes an absent entry
\* present, a get that returns absent makes a present, expired one absent.
Transitions(old, new, c) ==
    \A k \in DOMAIN old :
        /\ (old[k] = None /\ new[k] /= None) => c.op \in PutOps
        /\ (old[k] /= None /\ new[k] = None)
              => c.op \in GetOps /\ c.ret = Ok(None) /\ now > old[k][2]

\* A store with the entry of key k erased.
Erased(store, k) == [store EXCEPT ![k] = None]

\* Two outcomes of one operation that a caller cannot tell apart: the same
\* result, and stores that are equal or differ in an expired entry under k.
Alike(with, without, k, t) ==
    /\ with.ret = without.ret
    /\ \/ with.cache = without.cache
       \/ /\ with.cache[k] /= None /\ t > with.cache[k][2]
          /\ without.cache = Erased(with.cache, k)

\* On a store that holds an expired entry under k, a get and a put of k do
\* what they do on the store that never held one.
AsNeverWritten(method, t) ==
    /\ \A k \in Keys :
          LET ck == cache_key(k, method)
          IN  /\ (cache[ck] /= None /\ t > cache[ck][2]) =>
                    /\ Alike(InMemory_get(cache, method, k, t),
                             InMemory_get(Erased(cache, ck), method, k, t), ck, t)
                    /\ \A text \in Texts, ttl \in Ttls :
                          Alike(InMemory_put(cache, method, k, text, ttl, t),
                                InMemory_put(Erased(cache, ck), method, k, text, ttl, t),
                                ck, t)
              /\ (cache_dict[ck] /= None /\ t > cache_dict[ck][2]) =>
                    /\ Alike(InMemory_get_dict(cache_dict, method, k, t),
                             InMemory_get_dict(Erased(cache_dict, ck), method, k, t),
                             ck, t)
                    /\ \A d \in Dicts, ttl \in Ttls :
                          Alike(InMemory_put_dict(cache_dict, method, k, d, ttl, t),
                                InMemory_put_dict(Erased(cache_dict, ck), method, k, d,
                                                  ttl, t),
                                ck, t)
    /\ \A k \in Keys :
          /\ (local_cache[k] /= None /\ t > local_cache[k][2]) =>
                /\ Alike(Local_get(local_cache, k, t),
                         Local_get(Erased(local_cache, k), k, t), k, t)
                /\ \A text \in Texts, ttl \in Ttls :
                      Alike(Local_put(local_cache, k, text, ttl, t),
                            Local_put(Erased(local_cache, k), k, text, ttl, t), k, t)
          /\ (local_cache_dict[k] /= None /\ t > local_cache_dict[k][2]) =>
                /\ Alike(Local_get(local_cache_dict, k, t),
                         Local_get(Erased(local_cache_dict, k), k, t), k, t)
                /\ \A d \in Dicts, ttl \in Ttls :
                      Alike(Local_put(local_cache_dict, k, d, ttl, t),
                            Local_put(Erased(local_cache_dict, k), k, d, ttl, t), k, t)

\* C8: on a local backend an expired entry is as good as one never written. A
\* get (get_dict) that finds an entry whose expiration instant has passed
\* returns absent and removes the entry; on a store holding an expired entry
\* every get and put gives the result and the store it gives without the
\* entry; and an entry only ever goes from absent to present by a put and
\* from present to absent by such a get.
C8_ExpiredIsAbsent ==
    /\ []AsNeverWritten(compression_method, now)
    /\ [][/\ Transitions(cache, cache', call')
          /\ Transitions(cache_dict, cache_dict', call')
          /\ Transitions(local_cache, local_cache', call')
          /\ Transitions(local_cache_dict, local_cache_dict', call')
          /\ (/\ call'.op \in {"get", "get_dict"}
              /\ call'.provider \in {"in_memory", "local"}
              /\ call'.prior = "earlier")
             => /\ call'.ret = Ok(None)
                /\ Entry(cache', cache_dict', local_cache', local_cache_dict',
                         call'.provider, call'.op, call'.key) = None]_vars

\* A get of the InMemoryCacheProvider found an expired text and returned
\* absent.
C8_Witness ==
    /\ call.op = "get" /\ call.provider = "in_memory"
    /\ call.prior = "earlier" /\ call.ret = Ok(None)

\* C9: a put over an existing entry replaces the value and the expiration
\* both, on the local backends and on the remote one: after a put(k, v2, ttl2)
\* that returned at t2, a get of k returns v2 at every time up to t2 + ttl2 and
\* absent at every later time, whether the entry it replaced was to expire
\* earlier or later than t2 + ttl2.
C9_OverwriteRefreshes ==
    (/\ call.op \in PutOps
     /\ call.put /= None
     /\ call.prior /= "none")
    => \A t \in now..(MaxTime + MaxTtl + 1) :
          GetAt(call.served, call.op, call.key, t).ret
             = IF t <= call.put[2] THEN Ok(Some(call.put[1])) ELSE Ok(None)

\* A put of the InMemoryCacheProvider replaced a text that was to live longer
\* than the new one.
C9_Witness ==
    /\ call.op = "put" /\ call.provider = "in_memory"
    /\ call.put /= None /\ call.prior = "later"

\* C5: a ValkeyProvider cache operation (get_summary, set_summary,
\* get_transcript, set_transcript) whose remote attempt timed out, lost the
\* connection or raised returns a value: no exception leaves the facade.
C5_FailureAbsorbed ==
    (/\ call.op \in DataOps
     /\ call.provider = "valkey"
     /\ call.served = "local")
    => call.ret.ok

\* C6: while the remote backend has failed on every call, a ValkeyProvider
\* cache operation gives what the same operation gives on its
\* LocalCacheProvider: a get returns what the fallback's get returns, a put
\* returns normally and a get of the fallback then returns a value.
C6_Substitution ==
    (/\ call.op \in DataOps
     /\ call.provider = "valkey"
     /\ ~remote_answered)
    => LET local == GetAt("local", call.op, call.key, now)
       IN  /\ call.op \in GetOps => call.ret = local.ret
           /\ call.op \in PutOps => call.ret = Ok(None) /\ local.ret.val /= None

\* ------------------------------------------------- the facade's two paths
\* The fallback backend's state.
fallbackVars == <<local_cache, local_cache_dict, local_rate_limits>>

\* What the remote attempt of a cache operation on a caller key gives at the
\* current instant when it returns: the value read, nothing for a write.
RemoteReply(op, key) ==
    IF op \in GetOps THEN GetAt("valkey", op, key, now).ret ELSE Ok(None)

\* The cache operation op of the facade, its remote attempt returning in time
\* without raising, makes this step.
AnsweredInTime(op) ==
    \E h \in VideoHashes, l \in Languages :
       CASE op = "get_summary" ->
              /\ ValkeyGetSummaryAttempt(srv, SummaryKey(h, l, compression_method), now).ok
              /\ ValkeyGetSummary(h, l, "ok")
         [] op = "get_transcript" ->
              /\ ValkeyGetTranscriptAttempt(srv, TranscriptKey(h, compression_method), now).ok
              /\ ValkeyGetTranscript(h, "ok")
         [] op = "set_summary" ->
              \E ttl \in Ttls, text \in Texts :
                 /\ ValkeySetSummaryAttempt(srv, SummaryKey(h, l, compression_method),
                         compression_method, text, ttl, now).reply.ok
                 /\ ValkeySetSummary(h, l, text, ttl, "ok")
         [] op = "set_transcript" ->
              \E ttl \in Ttls, d \in Dicts :
                 /\ ValkeySetTranscriptAttempt(srv, TranscriptKey(h, compression_method),
                         compression_method, d, ttl, now).reply.ok
                 /\ ValkeySetTranscript(h, d, ttl, "ok")

\* C11: a ValkeyProvider cache operation whose remote attempt returns in time
\* without raising, a get that finds no key included, returns the attempt's
\* result and leaves the fallback backend untouched; the fallback answers only
\* after a timeout or an error.
C11_RemoteResultDirect ==
    [][(provider = "valkey" /\ call'.op \in DataOps) =>
          /\ call'.served = "remote"
                => /\ call'.ret = RemoteReply(call'.op, call'.key)
                   /\ UNCHANGED fallbackVars
          /\ call'.served = "local" => ~AnsweredInTime(call'.op)
      ]_vars

\* A get_summary answered by the server in time that found no key.
C11_Witness ==
    /\ call.op = "get_summary" /\ call.provider = "valkey"
    /\ call.served = "remote" /\ call.ret = Ok(None)

\* How far a call has come: each position is passed at most once, in this
\* order.
Progress(pc) ==
    CASE pc = "idle" -> 0
      [] pc = "remote" -> 1
      [] pc = "replied" -> 2
      [] pc = "acquire" -> 3
      [] pc = "read" -> 4
      [] pc = "done" -> 5

\* C12: within one is_rate_limited call of a ValkeyProvider the remote attempt
\* is started at most once, when the call is made; the fallback is entered at
\* most once, and only from an attempt that failed; a call never goes back to
\* the remote backend.
C12_OneAttemptOneFallback ==
    [][provider = "valkey" =>
       \A t \in Tasks :
          /\ Progress(task'[t].pc) >= Progress(task[t].pc)
          /\ (task'[t].pc = "remote" /\ task[t].pc /= "remote")
                => task[t].pc = "idle"
          /\ (task'[t].pc = "acquire" /\ task[t].pc /= "acquire")
                => /\ task[t].pc \in {"remote", "replied"}
                   /\ \E o \in RemoteOutcomes \ {"ok"} : RemoteFail(t, o)
          /\ (task'[t].pc = "done" /\ task[t].pc /= "done")
                => \/ task[t].pc = "replied" /\ task'[t].served = "remote"
                   \/ task[t].pc = "read" /\ task'[t].served = "local"
      ]_vars

\* A call of a ValkeyProvider that the fallback answered, after the server
\* had run the transaction of another call.
C12_Witness ==
    /\ provider = "valkey"
    /\ \E t \in Tasks : Done(t) /\ task[t].served = "local"
    /\ \E t \in Tasks : Done(t) /\ task[t].served = "remote"

\* ------------------------------------------------------- the codec alone
MaxLen == 2

\* Byte values: zero, a method tag, a letter, the largest.
Bytes == {0, 1, 72, 255}

\* The byte strings callers compress.
ByteStrings == UNION {[1..n -> Bytes] : n \in 0..MaxLen}

\* The values a damaged byte takes: the tags, an unknown tag, the magics, and
\* the bytes of the data.
Damage == (0..4) \cup {31, 120, 253} \cup Bytes

\* compress(s, m) is called; its output is at hand.
Compress(s, m) ==
    /\ codec.op = "none"
    /\ codec' = [op |-> "encoded", method |-> m, data |-> s,
                 blob |-> compress(s, m), damage |-> "none", at |-> 0, ret |-> None]
    /\ UNCHANGED <<coreVars, clientVars, factoryVars, cache_lock>>

\* The output is cut down to its first n bytes on the way.
Truncate(n) ==
    /\ codec.op = "encoded" /\ codec.damage = "none"
    /\ n < Len(codec.blob)
    /\ codec' = [codec EXCEPT !.blob = SubSeq(codec.blob, 1, n),
                              !.damage = "truncated", !.at = n]
    /\ UNCHANGED <<coreVars, clientVars, factoryVars, cache_lock>>

\* Byte i of the output is changed to b on the way.
Corrupt(i, b) ==
    /\ codec.op = "encoded" /\ codec.damage = "none"
    /\ i \in 1..Len(codec.blob) /\ b /= codec.blob[i]
    /\ codec' = [codec EXCEPT !.blob[i] = b, !.damage = "corrupted", !.at = i]
    /\ UNCHANGED <<coreVars, clientVars, factoryVars, cache_lock>>

\* decompress is called on the bytes at hand.
Decompress ==
    /\ codec.op = "encoded"
    /\ codec' = [codec EXCEPT !.op = "decoded", !.ret = decompress(codec.blob)]
    /\ UNCHANGED <<coreVars, clientVars, factoryVars, cache_lock>>

\* A reader of any configured compression method.
InitCodec ==
    /\ Constructed
    /\ provider = "in_memory"
    /\ cooldown_seconds = rate_limit_window
    /\ compression_method \in CompressionMethod

NextCodec ==
    \/ \E s \in ByteStrings, m \in CompressionMethod : Compress(s, m)
    \/ \E n \in 0..(MaxLen + 4) : Truncate(n)
    \/ \E i \in 1..(MaxLen + 5), b \in Damage : Corrupt(i, b)
    \/ Decompress

SpecCodec == InitCodec /\ [][NextCodec]_vars

\* C13: for every compression method m and every byte string s, the empty one
\* included, decompress(compress(s, m)) = s.
C13_RoundTrip ==
    (codec.op = "decoded" /\ codec.damage = "none") => codec.ret = Ok(codec.data)

\* The empty byte string went through lzma and back.
C13_Witness ==
    /\ codec.op = "decoded" /\ codec.damage = "none"
    /\ codec.method = "lzma" /\ codec.data = <<>>
    /\ codec.ret = Ok(<<>>)

\* C14: compress(s, m) starts with the one-byte tag of m; the four tags are
\* pairwise distinct; and decompress picks the inverse transform from that
\* first byte alone, whatever method the reader is configured with: what one
\* method wrote comes back under a reader of any other.
C14_SelfDescribing ==
    /\ \A m1, m2 \in CompressionMethod :
          COMPRESSION_PREFIXES(m1) = COMPRESSION_PREFIXES(m2) => m1 = m2
    /\ \A m \in CompressionMethod : PREFIX_TO_METHOD(COMPRESSION_PREFIXES(m)) = Some(m)
    /\ (codec.op \in {"encoded", "decoded"} /\ codec.damage = "none")
          => /\ codec.blob /= <<>>
             /\ codec.blob[1] = COMPRESSION_PREFIXES(codec.method)
    /\ (codec.op = "decoded" /\ codec.damage = "none") => codec.ret = Ok(codec.data)
    /\ (codec.op = "decoded" /\ codec.blob /= <<>>
               /\ PREFIX_TO_METHOD(codec.blob[1]) /= None)
          => LET method == PREFIX_TO_METHOD(codec.blob[1])[1]
             IN  codec.ret = IF method = "none" THEN Ok(Tail(codec.blob))
                             ELSE Inflate(method, Tail(codec.blob))

\* A reader configured for zlib decoded what was written with lzma.
C14_Witness ==
    /\ codec.op = "decoded" /\ codec.damage = "none"
    /\ codec.method = "lzma" /\ compression_method = "zlib"
    /\ codec.data = <<72, 1>> /\ codec.ret = Ok(<<72, 1>>)

\* The input at hand carries a first byte that is no method's tag.
UnknownTag == codec.blob /= <<>> /\ PREFIX_TO_METHOD(codec.blob[1]) = None

\* C15 as stated: decompress of an input with an unknown tag byte fails, and
\* decompress of any truncated or corrupted payload fails; no data is returned.
C15_ErrorsReported ==
    codec.op = "decoded"
    => /\ UnknownTag => ~codec.ret.ok
       /\ codec.damage \in {"truncated", "corrupted"} => ~codec.ret.ok

\* C15, amended: decompress of a non-empty input with an unknown tag byte
\* fails; decompress of gzip, zlib or lzma output cut short fails, unless
\* nothing is left of it or, of gzip, nothing but the tag; and decompress of a
\* gzip-, zlib- or lzma-tagged input whose payload the decompressor rejects
\* fails. In none of these cases is data returned.
C15_RejectedIsReported ==
    codec.op = "decoded"
    => /\ UnknownTag => ~codec.ret.ok
       /\ (/\ codec.damage = "truncated"
           /\ codec.method /= "none"
           /\ codec.blob /= <<>>
           /\ ~(codec.method = "gzip" /\ Len(codec.blob) = 1))
          => ~codec.ret.ok
       /\ (/\ codec.blob /= <<>>
           /\ PREFIX_TO_METHOD(codec.blob[1]) \notin {None, Some("none")}
           /\ ~Inflate(PREFIX_TO_METHOD(codec.blob[1])[1], Tail(codec.blob)).ok)
          => ~codec.ret.ok

\* zlib output that lost its last byte was refused.
C15_Witness ==
    /\ codec.op = "decoded" /\ codec.damage = "truncated"
    /\ codec.method = "zlib" /\ codec.data = <<72>>
    /\ codec.at = Len(compress(<<72>>, "zlib")) - 1
    /\ ~codec.ret.ok

\* ------------------------------------------- a change of the configured method
\* The methods a deployment switches between.
DeployMethods == {"gzip", "zlib"}

\* The process is restarted with COMPRESSION_METHOD set to method: the new
\* provider starts with empty maps of its own and no client, the server keeps
\* its keys.
Redeploy(method) ==
    /\ provider \in {"in_memory", "valkey"}
    /\ method /= compression_method
    /\ compression_method' = method
    /\ rate_limits' = [u \in Users |-> None]
    /\ local_rate_limits' = [u \in Users |-> None]
    /\ cache' = [k \in StorageKeys |-> None]
    /\ cache_dict' = [k \in StorageKeys |-> None]
    /\ local_cache' = [k \in Keys |-> None]
    /\ local_cache_dict' = [k \in Keys |-> None]
    /\ written' = [s \in Stores |-> [k \in Keys |-> None]]
    /\ call' = NoCall
    /\ valkey_client' = None
    /\ handles' = 0
    /\ used' = {}
    /\ UNCHANGED <<now, provider, cooldown_seconds, codec, factoryVars, cache_lock, srv, accepted,
                   concVars, remote_answered>>

InitDeploy ==
    /\ Constructed
    /\ provider \in {"in_memory", "valkey"}
    /\ cooldown_seconds = rate_limit_window
    /\ compression_method \in DeployMethods

\* The one text and the times to live written across deployments.
DeployTexts == {<<72>>}
DeployTtls == Ttls \ {0}

\* The cache operations of the provider, and restarts between them.
NextDeploy ==
    \/ Tick
    \/ \E m \in DeployMethods : Redeploy(m)
    \/ \E k \in TextKeys : InMemoryGet(k)
    \/ \E k \in TextKeys, text \in DeployTexts, ttl \in DeployTtls :
          InMemoryPut(k, text, ttl)
    \/ \E k \in DictKeys : InMemoryGetDict(k)
    \/ \E k \in DictKeys, text \in DeployTexts, ttl \in DeployTtls :
          InMemoryPutDict(k, [text |-> text], ttl)
    \/ \E h \in VideoHashes, l \in Languages, o \in RemoteOutcomes :
          ValkeyGetSummary(h, l, o)
    \/ \E h \in VideoHashes, l \in Languages, text \in DeployTexts,
          ttl \in DeployTtls, o \in RemoteOutcomes :
          ValkeySetSummary(h, l, text, ttl, o)
    \/ \E h \in VideoHashes, o \in RemoteOutcomes : ValkeyGetTranscript(h, o)
    \/ \E h \in VideoHashes, text \in DeployTexts, ttl \in DeployTtls,
          o \in RemoteOutcomes : ValkeySetTranscript(h, [text |-> text], ttl, o)

SpecDeploy == InitDeploy /\ [][NextDeploy]_vars

\* Caller keys, some of which end like a storage key.
CallerKeys == Keys \cup {"summary:h1", "summary:h1:en:gzip", "transcript:h1:zlib", ""}

\* The store of the provider a cache operation works on.
StoreAt(c, cd, keys, op) ==
    IF provider = "valkey" THEN keys ELSE IF op \in TextOps THEN c ELSE cd

\* The stored form of a value put by operation op.
StoredForm(op, value) ==
    IF op \in TextOps THEN encode_text(compression_method, value)
    ELSE encode_dict(compression_method, value).val

\* Every entry of an InMemoryCacheProvider lies under a key of its method, and
\* a get the store answered gave what lies under the caller key suffixed with
\* the provider's method, whatever lies under the other methods' keys.
UnderOwnMethod ==
    /\ provider = "in_memory" =>
          \A sk \in StorageKeys :
             (cache[sk] /= None \/ cache_dict[sk] /= None)
                => \E k \in Keys : sk = cache_key(k, compression_method)
    /\ (call.op \in GetOps /\ call.provider = "valkey" /\ call.served = "remote")
          => call.ret = GetAt("valkey", call.op, call.key, now).ret
    /\ (call.op \in GetOps /\ call.provider = "in_memory" /\ call.ret /= Ok(None))
          => Entry(cache, cache_dict, local_cache, local_cache_dict,
                   "in_memory", call.op, call.key) /= None

\* C16: a provider configured with method m keeps caller key k under the
\* storage key k:m: a put writes that key and no other, a get reads that key
\* alone, so what a gzip provider wrote is not seen by a zlib provider on the
\* same store; and distinct (key, method) pairs have distinct storage keys.
C16_MethodNamespace ==
    /\ \A k1, k2 \in CallerKeys, m1, m2 \in CompressionMethod :
          cache_key(k1, m1) = cache_key(k2, m2) => (k1 = k2 /\ m1 = m2)
    /\ []UnderOwnMethod
    /\ [][call'.op \in PutOps =>
            LET sk == cache_key(call'.key, compression_method)
                old == StoreAt(cache, cache_dict, srv, call'.op)
                new == StoreAt(cache', cache_dict', srv', call'.op)
            IN  /\ \A other \in DOMAIN old \ {sk} : new[other] = old[other]
                /\ call'.put /= None
                      => /\ new[sk] /= None
                         /\ new[sk][1] = StoredForm(call'.op, call'.put[1])
         ]_vars

\* A ValkeyProvider configured for zlib asked the server for a summary and
\* got none, while the one written under gzip is still on the server.
C16_Witness ==
    /\ provider = "valkey" /\ compression_method = "zlib"
    /\ call.op = "get_summary" /\ call.served = "remote" /\ call.ret = Ok(None)
    /\ Live(srv[SummaryKey("h1", "en", "gzip")], now)

\* ------------------------------------------------------ poisoned entries
\* The methods of the providers whose entries get damaged.
PoisonMethods == {"none", "gzip"}

\* Stored bytes no writer of the provider produced: an unknown tag, a
\* container cut short, bytes that are not UTF-8, text that is not JSON.
PoisonValues(method) ==
    {<<4>>,
     SubSeq(compress(<<72>>, "zlib"), 1, Len(compress(<<72>>, "zlib")) - 1),
     compress(<<255>>, method),
     compress(<<123>>, method)}

\* The stored value fails decompression, UTF-8 decoding or, for a record,
\* JSON deserialization.
Undecodable(op, data) ==
    LET raw == decompress(data)
    IN  \/ ~raw.ok
        \/ ~Utf8Decode(raw.val).ok
        \/ op \in DictOps /\ ~JsonLoads(Utf8Decode(raw.val).val).ok

\* The value under an entry is damaged where it is stored: in the maps of an
\* InMemoryCacheProvider, or on the server of a ValkeyProvider.
Poison(op, k, v) ==
    LET sk == cache_key(k, compression_method)
    IN  /\ provider \in {"in_memory", "valkey"}
        /\ StoreAt(cache, cache_dict, srv, op)[sk] /= None
        /\ StoreAt(cache, cache_dict, srv, op)[sk][1] /= v
        /\ cache' = IF provider = "in_memory" /\ op = "get"
                    THEN [cache EXCEPT ![sk][1] = v] ELSE cache
        /\ cache_dict' = IF provider = "in_memory" /\ op = "get_dict"
                         THEN [cache_dict EXCEPT ![sk][1] = v] ELSE cache_dict
        /\ srv' = IF provider = "valkey" THEN [srv EXCEPT ![sk][1] = v] ELSE srv
        /\ call' = NoCall
        /\ UNCHANGED <<now, config, otherVars, rateVars, concVars, local_cache,
                       local_cache_dict, written, remote_answered>>

InitPoison ==
    /\ Constructed
    /\ provider \in {"in_memory", "valkey"}
    /\ cooldown_seconds = rate_limit_window
    /\ compression_method \in PoisonMethods

\* The cache operations of the provider, and damage to what is stored.
NextPoison ==
    \/ Tick
    \/ \E k \in TextKeys, v \in PoisonValues(compression_method) : Poison("get", k, v)
    \/ \E k \in DictKeys, v \in PoisonValues(compression_method) : Poison("get_dict", k, v)
    \/ \E k \in TextKeys : InMemoryGet(k)
    \/ \E k \in TextKeys, text \in DeployTexts, ttl \in DeployTtls :
          InMemoryPut(k, text, ttl)
    \/ \E k \in DictKeys : InMemoryGetDict(k)
    \/ \E k \in DictKeys, text \in DeployTexts, ttl \in DeployTtls :
          InMemoryPutDict(k, [text |-> text], ttl)
    \/ \E h \in VideoHashes, l \in Languages, o \in RemoteOutcomes :
          ValkeyGetSummary(h, l, o)
    \/ \E h \in VideoHashes, l \in Languages, text \in DeployTexts,
          ttl \in DeployTtls, o \in RemoteOutcomes :
          ValkeySetSummary(h, l, text, ttl, o)
    \/ \E h \in VideoHashes, o \in RemoteOutcomes : ValkeyGetTranscript(h, o)
    \/ \E h \in VideoHashes, text \in DeployTexts, ttl \in DeployTtls,
          o \in RemoteOutcomes : ValkeySetTranscript(h, [text |-> text], ttl, o)

SpecPoison == InitPoison /\ [][NextPoison]_vars

\* The entry is there, has not expired at t, and its value is damaged.
PoisonedEntry(entry, op, t) ==
    /\ entry /= None
    /\ entry[2] /= None => t <= entry[2][1]
    /\ Undecodable(op, entry[1])

\* The entry of an InMemoryCacheProvider with its expiry as the server keeps
\* one.
AsRemote(entry) == IF entry = None THEN None ELSE <<entry[1], Some(entry[2])>>

\* C17: a get that reads a stored value which then fails decompression, UTF-8
\* decoding or JSON deserialization returns absent and raises nothing: on the
\* InMemoryCacheProvider, and on a ValkeyProvider whose server answered in
\* time.
C17_PoisonedIsMiss ==
    /\ [](/\ call.op \in {"get", "get_dict"}
          /\ call.provider = "in_memory"
          /\ PoisonedEntry(AsRemote(Entry(cache, cache_dict, local_cache,
                  local_cache_dict, "in_memory", call.op, call.key)), call.op, now)
          => call.ret = Ok(None))
    /\ [][\A h \in VideoHashes, l \in Languages :
            /\ (/\ call'.op = "get_summary"
                /\ PoisonedEntry(srv[SummaryKey(h, l, compression_method)],
                                 "get_summary", now)
                /\ ValkeyGetSummary(h, l, "ok"))
               => call'.ret = Ok(None)
            /\ (/\ call'.op = "get_transcript"
                /\ PoisonedEntry(srv[TranscriptKey(h, compression_method)],
                                 "get_transcript", now)
                /\ ValkeyGetTranscript(h, "ok"))
               => call'.ret = Ok(None)
         ]_vars

\* C18: a ValkeyProvider just constructed holds no client; the first operation
\* makes the handle; however many first operations run together the provider
\* makes one handle at most, and every operation works with that one.
C18_SingleClient ==
    /\ handles <= 1
    /\ Cardinality(used) <= 1
    /\ valkey_client = None <=> handles = 0
    /\ valkey_client /= None => used = {valkey_client[1]}
    /\ (\A t \in Tasks : task[t].pc = "idle") => valkey_client = None
    /\ (provider = "valkey" /\ \E t \in Tasks : task[t].pc /= "idle")
          => valkey_client /= None
    /\ provider /= "valkey" => valkey_client = None

\* Two first operations of a ValkeyProvider are in flight together.
C18_Witness ==
    /\ provider = "valkey"
    /\ \A t \in Tasks : task[t].pc = "remote"
    /\ handles = 1 /\ used = {1}

\* ------------------------------------------------ the provider factory
\* The settings objects handed to get_cache_provider. valkey_url is None, the
\* empty string or an address. A Settings instance has no attribute
\* cache_compression_method (None here); a stand-in for it may carry one.
Urls == {None, Some(""), Some("redis://valkey:6379/0")}
SettingsObjects ==
    [valkey_url : Urls, cache_compression_method : {None, Some("gzip")}]

\* factory.py line 43: the truth value of settings.valkey_url
UrlSet(valkey_url) == valkey_url /= None /\ valkey_url[1] /= ""

\* The abstract methods of CacheProvider that a provider class leaves
\* undefined: ValkeyProvider defines get_summary, set_summary, get_transcript
\* and set_transcript, and none of get, put, get_dict, put_dict.
Undefined(cls) ==
    IF cls = "ValkeyProvider" THEN {"get", "get_dict", "put", "put_dict"} ELSE {}

\* cls(...): Python refuses to instantiate a class with abstract methods.
Instantiate(cls, id, method) ==
    IF Undefined(cls) /= {} THEN Err("TypeError")
    ELSE Ok([cls |-> cls, id |-> id, compression_method |-> method])

\* factory.py lines 43 to 51: the provider built from the settings, or the
\* exception of the attribute read or of the constructor.
BuildProvider(settings, id) ==
    LET cls == IF UrlSet(settings.valkey_url) THEN "ValkeyProvider"
               ELSE "InMemoryCacheProvider"
    IN  IF settings.cache_compression_method = None THEN Err("AttributeError")
        ELSE Instantiate(cls, id, settings.cache_compression_method[1])

At(th, line) == thread[th].pc = line
Goto(th, line) == [thread[th] EXCEPT !.pc = line]

\* A thread calls get_cache_provider(settings).
GetCacheProvider(th, settings) ==
    /\ At(th, "idle")
    /\ thread' = [thread EXCEPT ![th] = [pc |-> "l36", settings |-> settings]]
    /\ UNCHANGED <<coreVars, codec, clientVars, cache_lock, current, provider_lock, instances>>

\* line 36: the check outside the lock
Line36(th) ==
    /\ At(th, "l36")
    /\ thread' = [thread EXCEPT ![th] =
          Goto(th, IF current /= None THEN "l37" ELSE "l39")]
    /\ UNCHANGED <<coreVars, codec, clientVars, cache_lock, current, provider_lock, instances>>

\* lines 37 and 55: return _state.current, read at this moment
ReturnCurrent(th) ==
    /\ At(th, "l37") \/ At(th, "l55")
    /\ thread' = [thread EXCEPT ![th] =
          [pc |-> "returned", settings |-> thread[th].settings, ret |-> current]]
    /\ UNCHANGED <<coreVars, codec, clientVars, cache_lock, current, provider_lock, instances>>

\* line 39: with _provider_lock
Line39(th) ==
    /\ At(th, "l39")
    /\ provider_lock = None
    /\ provider_lock' = Some(th)
    /\ thread' = [thread EXCEPT ![th] = Goto(th, "l40")]
    /\ UNCHANGED <<coreVars, codec, clientVars, cache_lock, current, instances>>

\* line 40: the check inside the lock
Line40(th) ==
    /\ At(th, "l40")
    /\ thread' = [thread EXCEPT ![th] =
          Goto(th, IF current /= None THEN "l41" ELSE "l43")]
    /\ UNCHANGED <<coreVars, codec, clientVars, cache_lock, current, provider_lock, instances>>

\* line 41: return _state.current from inside the with block, which
\* releases the lock.
Line41(th) ==
    /\ At(th, "l41")
    /\ provider_lock' = None
    /\ thread' = [thread EXCEPT ![th] =
          [pc |-> "returned", settings |-> thread[th].settings, ret |-> current]]
    /\ UNCHANGED <<coreVars, codec, clientVars, cache_lock, current, instances>>

\* lines 43 to 51: build the provider and store it; an exception leaves the
\* with block, which releases the lock, and reaches the caller.
Line43(th) ==
    LET built == BuildProvider(thread[th].settings, instances + 1)
    IN  /\ At(th, "l43")
        /\ instances < MaxInstances
        /\ IF built.ok
           THEN /\ current' = Some(built.val)
                /\ instances' = instances + 1
                /\ thread' = [thread EXCEPT ![th] = Goto(th, "l52")]
                /\ UNCHANGED provider_lock
           ELSE /\ provider_lock' = None
                /\ thread' = [thread EXCEPT ![th] =
                      [pc |-> "raised", settings |-> thread[th].settings,
                       exc |-> built.err]]
                /\ UNCHANGED <<current, instances>>
        /\ UNCHANGED <<coreVars, codec, clientVars, cache_lock>>

\* the end of the with block: the lock is released
Line52(th) ==
    /\ At(th, "l52")
    /\ provider_lock' = None
    /\ thread' = [thread EXCEPT ![th] = Goto(th, "l53")]
    /\ UNCHANGED <<coreVars, codec, clientVars, cache_lock, current, instances>>

\* lines 53 and 54: if _state.current is None: raise RuntimeError
Line53(th) ==
    /\ At(th, "l53")
    /\ thread' = [thread EXCEPT ![th] =
          IF current = None
          THEN [pc |-> "raised", settings |-> thread[th].settings,
                exc |-> "RuntimeError"]
          ELSE Goto(th, "l55")]
    /\ UNCHANGED <<coreVars, codec, clientVars, cache_lock, current, provider_lock, instances>>

\* The caller has its provider or its exception, and may call again.
Finish(th) ==
    /\ At(th, "returned") \/ At(th, "raised")
    /\ thread' = [thread EXCEPT ![th] = Idle]
    /\ UNCHANGED <<coreVars, codec, clientVars, cache_lock, current, provider_lock, instances>>

\* reset_cache_provider, which takes no lock
ResetCacheProvider ==
    /\ current /= None
    /\ current' = None
    /\ UNCHANGED <<coreVars, codec, clientVars, cache_lock, provider_lock, thread, instances>>

InitFactory ==
    /\ Constructed
    /\ provider = "in_memory"
    /\ cooldown_seconds = rate_limit_window
    /\ compression_method = "gzip"

NextFactory ==
    \/ \E th \in Callers, settings \in SettingsObjects : GetCacheProvider(th, settings)
    \/ \E th \in Callers : Line36(th)
    \/ \E th \in Callers : ReturnCurrent(th)
    \/ \E th \in Callers : Line39(th)
    \/ \E th \in Callers : Line40(th)
    \/ \E th \in Callers : Line41(th)
    \/ \E th \in Callers : Line43(th)
    \/ \E th \in Callers : Line52(th)
    \/ \E th \in Callers : Line53(th)
    \/ \E th \in Callers : Finish(th)
    \/ ResetCacheProvider

SpecFactory == InitFactory /\ [][NextFactory]_vars

\* C19: the call of get_cache_provider that finds no provider builds one: a
\* ValkeyProvider if and only if settings.valkey_url is set and not empty, an
\* InMemoryCacheProvider otherwise.
C19_BackendSelection ==
    [][\A th \in Callers :
          (At(th, "l43") /\ thread'[th].pc /= "l43") =>
             /\ current' /= None
             /\ thread'[th].pc = "l52"
             /\ current'[1].cls = IF UrlSet(thread[th].settings.valkey_url)
                                  THEN "ValkeyProvider"
                                  ELSE "InMemoryCacheProvider"]_vars

\* ------------------------------------------------ the cache's callers
\* The transcripts summarized, the locales asked for ("" is refused), the
\* messages' links.
Transcripts == {"hello", ""}
Locales == {"en", "ru", ""}
Links == {"https://youtu.be/dQw4w9WgXcQ",
          "https://www.youtube.com/watch?v=dQw4w9WgXcQ",
          "https://example.com/"}

\* hashlib.sha256(s.encode("utf-8")).hexdigest() of the strings hashed here
Sha256Hex(s) ==
    CASE s = "hello" ->
           "2cf24dba5fb0a30e26e83b2ac5b9e29e1b161e5c1fa7425e73043362938b9824"
      [] s = "world" ->
           "486ea46224d1bb4fb680f34f7c9ad96a8f24ec88be73ea8e5a6c65260e9cb8a7"
      [] s = "https://www.youtube.com/watch?v=dQw4w9WgXcQ" ->
           "0424974c68530290458c8d58674e2637f65abc127057957d7b3acbd24c208f93"
      [] s = "https://vkvideo.ru/video-1_2" ->
           "d9077d49ba6006d2cd27e98f149d998d052726bc1f8498c7e36f2f61b23fefae"

\* build_video_source: the canonical URL of a link the YOUTUBE or VKVIDEO
\* pattern matches, ValueError for a link no pattern matches.
build_video_source(url) ==
    CASE url \in {"https://youtu.be/dQw4w9WgXcQ",
                  "https://www.youtube.com/watch?v=dQw4w9WgXcQ"} ->
           Ok("https://www.youtube.com/watch?v=dQw4w9WgXcQ")
      [] url = "https://vkvideo.ru/video-1_2" -> Ok("https://vkvideo.ru/video-1_2")
      [] OTHER -> Err("ValueError")

\* summarization.py line 21 and video_loader.py line 30: cache_prefix
summary_cache_prefix == "summary:"
transcript_cache_prefix == "transcript:"

\* summarization.py line 71: f"{cache_prefix}:{video_hash}:{locale}"
SummarizerKey(text, locale) ==
    summary_cache_prefix \o ":" \o Sha256Hex(text) \o ":" \o locale

\* video_loader.py line 132: f"{cache_prefix}:{self._get_video_hash(url)}"
LoaderKey(url) == transcript_cache_prefix \o ":" \o Sha256Hex(url)

\* The keys the summarizer and the loader hand to the provider, and the keys
\* the provider stores them under.
CollaboratorKeys ==
    {SummarizerKey(t, l) : t \in Transcripts \ {""}, l \in Locales \ {""}}
      \cup {LoaderKey(build_video_source(u).val) :
              u \in {v \in Links : build_video_source(v).ok}}
CollaboratorStorageKeys ==
    {cache_key(k, m) : k \in CollaboratorKeys, m \in CompressionMethod}

\* What the collaborator did: its input and time to live, the key of its get,
\* whether it computed (asked the LLM, ran the downloader), the key of its put
\* (None when it made none), and its result.
Collaboration(op, input, ttl, get_key, computed, put_key, ret) ==
    [op |-> op, input |-> input, ttl |-> ttl, get_key |-> get_key,
     computed |-> computed, put_key |-> put_key, ret |-> ret]

\* A deliberately wrong test, for comparison: the cached value is never used.
HitNever(cached) == FALSE

\* summarization.py line 73, video_loader.py line 134: `if cached_summary:`,
\* `if cached_transcript:` - the get returned a value, and not an empty one.
Hit(cached) == cached /= None /\ cached[1] /= <<>>

\* OpenAISummarizer.summarize(text, locale) over the provider's text store; llm
\* is what _summarize gives. The store it leaves and what it did.
summarize(store, text, locale, llm, ttl) ==
    LET cache_key0 == SummarizerKey(text, locale)
        cached_summary == InMemory_get(store, compression_method, cache_key0, now)
        stored == InMemory_put(cached_summary.cache, compression_method,
                               cache_key0, llm.val, ttl, now)
    IN  IF locale = "" \/ text = ""
        THEN [cache |-> store,
              call |-> Collaboration("summarize", <<text, locale>>, ttl, None,
                                     FALSE, None, Err("ValueError"))]
        ELSE IF Hit(cached_summary.ret.val)
        THEN [cache |-> cached_summary.cache,
              call |-> Collaboration("summarize", <<text, locale>>, ttl,
                                     Some(cache_key0), FALSE, None,
                                     Ok(cached_summary.ret.val[1]))]
        ELSE IF ~llm.ok
        THEN [cache |-> cached_summary.cache,
              call |-> Collaboration("summarize", <<text, locale>>, ttl,
                                     Some(cache_key0), TRUE, None, llm)]
        ELSE [cache |-> stored.cache,
              call |-> Collaboration("summarize", <<text, locale>>, ttl,
                                     Some(cache_key0), TRUE, Some(cache_key0), llm)]

Summarize(text, locale, llm, ttl) ==
    LET done == summarize(cache, text, locale, llm, ttl)
    IN  /\ provider = "in_memory"
        /\ call' = done.call
        /\ cache' = done.cache
        /\ UNCHANGED <<now, config, otherVars, rateVars, srv, concVars, cache_dict,
                       local_cache, local_cache_dict, written, remote_answered>>

\* VideoDataLoader.load(url) over the provider's record store; loaded is what
\* _load gives. The store it leaves and what it did.
load(store, url, loaded, ttl) ==
    LET source == build_video_source(url)
        cache_key0 == LoaderKey(source.val)
        cached_transcript ==
            InMemory_get_dict(store, compression_method, cache_key0, now)
        stored == InMemory_put_dict(cached_transcript.cache, compression_method,
                                    cache_key0, loaded.val, ttl, now)
    IN  IF ~source.ok
        THEN [cache |-> store,
              call |-> Collaboration("load", url, ttl, None, FALSE, None, source)]
        ELSE IF Hit(cached_transcript.ret.val)
        THEN [cache |-> cached_transcript.cache,
              call |-> Collaboration("load", url, ttl, Some(cache_key0), FALSE,
                                     None, Ok(cached_transcript.ret.val[1]))]
        ELSE IF ~loaded.ok
        THEN [cache |-> cached_transcript.cache,
              call |-> Collaboration("load", url, ttl, Some(cache_key0), TRUE,
                                     None, loaded)]
        ELSE [cache |-> stored.cache,
              call |-> Collaboration("load", url, ttl, Some(cache_key0), TRUE,
                                     Some(cache_key0), loaded)]

Load(url, loaded, ttl) ==
    LET done == load(cache_dict, url, loaded, ttl)
    IN  /\ provider = "in_memory"
        /\ call' = done.call
        /\ cache_dict' = done.cache
        /\ UNCHANGED <<now, config, otherVars, rateVars, srv, concVars, cache,
                       local_cache, local_cache_dict, written, remote_answered>>

Summaries == {Ok(t) : t \in Texts} \cup {Err("RuntimeError")}
Loads == {Ok([text |-> t]) : t \in Texts} \cup {Err("RuntimeError")}
CollaboratorTtls == Ttls \ {0}

InitCollaborators ==
    /\ ConstructedOver(CollaboratorStorageKeys)
    /\ provider = "in_memory"
    /\ cooldown_seconds = rate_limit_window
    /\ compression_method = "gzip"

NextCollaborators ==
    \/ Tick
    \/ \E text \in Transcripts, locale \in Locales, llm \in Summaries,
          ttl \in CollaboratorTtls : Summarize(text, locale, llm, ttl)
    \/ \E url \in Links, loaded \in Loads, ttl \in CollaboratorTtls :
          Load(url, loaded, ttl)

SpecCollaborators == InitCollaborators /\ [][NextCollaborators]_vars

\* C20: the summarizer gets and puts under exactly summary:<sha256(text)>:<locale>
\* and the loader under exactly transcript:<sha256(canonical URL)>, with single
\* ':' separators, and the put of an input uses the key of its get.
C20_KeyNaming ==
    /\ (call.op = "summarize" /\ call.get_key /= None) =>
          /\ call.get_key[1] =
                "summary:" \o Sha256Hex(call.input[1]) \o ":" \o call.input[2]
          /\ call.put_key \in {None, call.get_key}
    /\ (call.op = "load" /\ call.get_key /= None) =>
          /\ call.get_key[1] =
                "transcript:" \o Sha256Hex(build_video_source(call.input).val)
          /\ call.put_key \in {None, call.get_key}

\* ------------------------------------------------ rejected requests
\* The server has answered every rate check so far: the fallback, which
\* records its first call, has no record.
RemoteAlone == \A u \in Users : local_rate_limits[u] = None

\* A rate check that returns limited leaves the timestamp maps alone when a
\* local backend answers, and adds one to the user's counter without touching
\* its expiry when the server answers. With W > 0, a local backend answers
\* not-limited from W after the user's last accepted check, and the server,
\* while it alone answers, from `wait` after it.
WindowNotExtended(wait) ==
    call'.op = "is_rate_limited" =>
        LET key == RateKey(call'.user)
            last == call'.served_before
        IN  /\ (call'.served \in {"in_memory", "local"} /\ call'.ret)
                  => UNCHANGED <<rate_limits, local_rate_limits>>
            /\ (/\ call'.served \in {"in_memory", "local"} /\ cooldown_seconds > 0
                /\ last /= None /\ now - last[1] >= cooldown_seconds)
                  => ~call'.ret
            /\ (call'.served = "remote" /\ call'.ret)
                  => /\ srv[key] /= None
                     /\ srv'[key] = <<srv[key][1] + 1, srv[key][2]>>
            /\ (/\ call'.served = "remote" /\ cooldown_seconds > 0 /\ RemoteAlone
                /\ last /= None /\ now - last[1] >= wait)
                  => ~call'.ret

\* C21, as stated: a rejected request extends no window, so on either backend
\* a user is not-limited W seconds after the last accepted request.
C21_NotLimitedAtW == [][WindowNotExtended(cooldown_seconds)]_vars

\* C21: a rejected request extends no window: a limited call leaves the local
\* timestamp unchanged, and on the server it increments the counter and keeps
\* the key's expiry; so a user is not-limited W seconds after the last accepted
\* request on a local backend and more than W seconds after it on the server.
C21_NotLimitedAfterW == [][WindowNotExtended(cooldown_seconds + 1)]_vars

\* The server rejects a user at the last instant of the window, and the key
\* still expires W after the accepted request.
C21_Witness ==
    /\ call.op = "is_rate_limited" /\ call.served = "remote" /\ call.ret
    /\ cooldown_seconds > 0 /\ RemoteAlone
    /\ call.served_before /= None
    /\ now = call.served_before[1] + cooldown_seconds
    /\ srv[RateKey(call.user)] = <<2, Some(now)>>

\* ------------------------------------------------ locks and suspension
\* Each task is one call on the process's provider: a rate check, with the
\* positions above, or a cache operation of the InMemoryCacheProvider:
\*   "acquire_cache"  waiting for _cache_lock (in_memory.py 40, 54, 60, 74)
\*   "in_cache"       in the critical section
\*   "done"           returned, or raised

\* The cache operations and their arguments.
CacheOps == {"get", "put", "get_dict", "put_dict"}
LockTexts == {<<72>>}
LockDicts == {[text |-> x] : x \in LockTexts \cup {NonSerializable}}
CacheArgs(op) ==
    CASE op = "get" -> {[key |-> k] : k \in TextKeys}
      [] op = "get_dict" -> {[key |-> k] : k \in DictKeys}
      [] op = "put" -> {[key |-> k, value |-> v, ttl |-> MaxTtl] :
                           k \in TextKeys, v \in LockTexts}
      [] op = "put_dict" -> {[key |-> k, value |-> v, ttl |-> MaxTtl] :
                                k \in DictKeys, v \in LockDicts}

\* A deliberately wrong exit, for comparison: the lock is released when the
\* body returns and kept when it raises.
ExitOnReturn(result, holder) == IF result.ok THEN None ELSE Some(holder)

\* __aexit__ of async with: the lock is released whether the body returned or
\* raised.
Exit(result, holder) == None

\* The places where a task is suspended: it awaits the server or a lock.
Suspended(t) == task[t].pc \in {"remote", "replied", "acquire", "acquire_cache"}

\* The locks a task holds.
Held(t) ==
    (IF rate_limit_lock = Some(t) THEN {"_rate_limit_lock"} ELSE {})
      \cup (IF cache_lock = Some(t) THEN {"_cache_lock"} ELSE {})

\* The cache operation is called.
LaunchCache(t, op, args) ==
    /\ task[t].pc = "idle"
    /\ provider = "in_memory"
    /\ task' = [task EXCEPT ![t] = [pc |-> "acquire_cache", op |-> op, args |-> args]]
    /\ UNCHANGED <<now, config, codec, clientVars, factoryVars, cache_lock, rateVars,
                   srv, call, rate_limit_lock, dataVars>>

\* __aenter__ of _cache_lock, taken only when it is free.
EnterCache(t) ==
    /\ task[t].pc = "acquire_cache"
    /\ LockFree(cache_lock)
    /\ cache_lock' = Some(t)
    /\ task' = [task EXCEPT ![t] = [@ EXCEPT !.pc = "in_cache"]]
    /\ UNCHANGED <<now, config, codec, clientVars, factoryVars, rateVars, srv, call,
                   rate_limit_lock, dataVars>>

\* The body of the critical section, which does not suspend, and the exit.
LeaveCache(t) ==
    LET me == task[t]
        r == CASE me.op = "get" ->
                    InMemory_get(cache, compression_method, me.args.key, now)
               [] me.op = "get_dict" ->
                    InMemory_get_dict(cache_dict, compression_method, me.args.key, now)
               [] me.op = "put" ->
                    InMemory_put(cache, compression_method, me.args.key,
                                 me.args.value, me.args.ttl, now)
               [] me.op = "put_dict" ->
                    InMemory_put_dict(cache_dict, compression_method, me.args.key,
                                      me.args.value, me.args.ttl, now)
    IN  /\ me.pc = "in_cache"
        /\ cache' = IF me.op \in {"get", "put"} THEN r.cache ELSE cache
        /\ cache_dict' = IF me.op \in {"get_dict", "put_dict"} THEN r.cache
                         ELSE cache_dict
        /\ cache_lock' = Exit(r.ret, t)
        /\ task' = [task EXCEPT ![t] =
              [pc |-> "done", op |-> me.op, args |-> me.args, ret |-> r.ret]]
        /\ UNCHANGED <<now, config, codec, clientVars, factoryVars, rateVars, srv, call,
                       rate_limit_lock, local_cache, local_cache_dict, written,
                       remote_answered>>

InitLocks ==
    /\ Constructed
    /\ provider \in {"in_memory", "valkey"}
    /\ cooldown_seconds = MaxWindow
    /\ compression_method = "gzip"

\* What a task in flight does next.
Step(t) ==
    \/ ServerExecute(t)
    \/ RemoteReturn(t)
    \/ \E o \in RemoteOutcomes : RemoteFail(t, o)
    \/ Enter(t)
    \/ Decide(t)
    \/ EnterCache(t)
    \/ LeaveCache(t)

NextLocks ==
    \/ \E t \in Tasks, u \in Users : Launch(t, u)
    \/ \E t \in Tasks, op \in CacheOps : \E args \in CacheArgs(op) :
          LaunchCache(t, op, args)
    \/ \E t \in Tasks : Step(t)

\* The event loop runs a task that can run, and the deadline of _safe_execute
\* ends every remote attempt. Each task is one call, made at one instant.
SpecLocks ==
    InitLocks /\ [][NextLocks]_vars /\ WF_vars(\E t \in Tasks : Step(t))

\* C22: a suspended task holds no lock; no task holds two locks; a lock is
\* held only inside its critical section and is free again when the operation
\* has returned or raised (put_dict of a record json.dumps refuses raises and
\* leaves the store as it was); and every local operation under way completes.
C22_NoLockAcrossSuspension ==
    /\ [](\A t \in Tasks :
            /\ Suspended(t) => Held(t) = {}
            /\ Cardinality(Held(t)) <= 1
            /\ "_rate_limit_lock" \in Held(t) <=> task[t].pc = "read"
            /\ "_cache_lock" \in Held(t) <=> task[t].pc = "in_cache"
            /\ task[t].pc \in {"idle", "done"} => Held(t) = {})
    /\ [][\A t \in Tasks :
            (task[t].pc = "in_cache" /\ task'[t].pc = "done" /\ ~task'[t].ret.ok)
               => /\ UNCHANGED <<cache, cache_dict>>
                  /\ cache_lock' = None]_vars
    /\ \A t \in Tasks :
          (task[t].pc \in {"acquire", "read", "acquire_cache", "in_cache"})
             ~> (task[t].pc = "done")

\* A put_dict has raised on a record json.dumps refuses while the other task
\* waits for the lock it held.
C22_Witness ==
    \E t1, t2 \in Tasks :
        /\ t1 /= t2
        /\ task[t1].pc = "done" /\ "op" \in DOMAIN task[t1]
        /\ task[t1].op = "put_dict" /\ ~task[t1].ret.ok
        /\ task[t2].pc = "acquire_cache"
        /\ cache_lock = None

\* ------------------------------------------------ the two backends' states
\* The fallback's entry of a caller key, in the store of the operation.
FallbackEntry(op, key, texts, dicts) ==
    IF StoreOf(op) = "text" THEN texts[key] ELSE dicts[key]

C24_FallbackKept ==
    [][(provider = "valkey" /\ call'.op \in DataOps) =>
          /\ call'.served = "remote" => UNCHANGED fallbackVars
          /\ (call'.op \in GetOps /\ call'.served = "local")
                => call'.ret = GetAt("local", call'.op, call'.key, now).ret
          /\ (call'.op \in PutOps /\ call'.served = "local")
                => /\ call'.ret.ok
                   /\ FallbackEntry(call'.op, call'.key, local_cache',
                                    local_cache_dict') /= None
      ]_vars

\* C25: the call that finds no provider constructs one, and none is
\* constructed while one is kept, so concurrent first calls construct one
\* provider; only reset_cache_provider drops it; a call returns the provider
\* kept, whatever settings it was given; and the provider kept is the last
\* one constructed, a new instance after a reset.
C25_Singleton ==
    /\ [](current /= None => current[1].id = instances)
    /\ [][/\ instances' /= instances => current = None
          /\ (current /= None /\ current' /= current)
                => (current' = None /\ UNCHANGED thread)
          /\ \A th \in Callers :
                /\ (At(th, "l43") /\ thread'[th].pc /= "l43")
                      => /\ instances' = instances + 1
                         /\ current' /= None /\ current'[1].id = instances'
                /\ (thread'[th].pc = "returned" /\ thread[th].pc /= "returned"
                    /\ current /= None)
                      => thread'[th].ret = current
      ]_vars

\* C26: whenever reset_cache_provider runs among the steps of a
\* get_cache_provider call, the call returns a provider: it never returns None
\* and never raises RuntimeError("Cache provider not initialized").
C26_AlwaysInstance ==
    \A th \in Callers :
        /\ At(th, "returned") => thread[th].ret /= None
        /\ At(th, "raised") => thread[th].exc /= "RuntimeError"

\* ------------------------------------------------ cache-aside
\* The entry of the provider's store a collaborator's key names, None when
\* there is none or its time to live is over at t.
InForceAt(store, key, t) ==
    LET entry == store[cache_key(key, compression_method)]
    IN  IF entry /= None /\ t <= entry[2] THEN entry ELSE None

\* C27: summarize and load get from the cache first. When the entry of their
\* key is in force (put at most its time to live ago) they return its value
\* and compute nothing. When there is none they compute; a result is put under
\* the key with the configured time to live and returned; an exception of the
\* computation leaves the cache as it was.
C27_CacheAside ==
    [][(call'.op \in {"summarize", "load"} /\ call'.get_key /= None) =>
          LET key == call'.get_key[1]
              store == IF call'.op = "summarize" THEN cache ELSE cache_dict
              store2 == IF call'.op = "summarize" THEN cache' ELSE cache_dict'
              ck == cache_key(key, compression_method)
              entry == InForceAt(store, key, now)
              value == IF call'.op = "summarize" THEN decode_text(entry[1])
                       ELSE decode_dict(entry[1])
          IN  /\ entry /= None
                    => /\ ~call'.computed
                       /\ call'.ret = Ok(value[1])
                       /\ call'.put_key = None
                       /\ UNCHANGED <<cache, cache_dict>>
              /\ entry = None
                    => /\ call'.computed
                       /\ call'.ret.ok
                             => /\ call'.put_key = call'.get_key
                                /\ store2[ck][2] = now + call'.ttl
                                /\ InForceAt(store2, key, now + call'.ttl) /= None
                                /\ (IF call'.op = "summarize"
                                    THEN decode_text(store2[ck][1])
                                    ELSE decode_dict(store2[ck][1]))
                                   = Some(call'.ret.val)
                       /\ ~call'.ret.ok
                             => /\ call'.put_key = None
                                /\ store2[ck] = None
                                /\ \A k \in DOMAIN store \ {ck} : store2[k] = store[k]
      ]_vars

\* A second summarize of a text, at the last instant of the entry the first
\* one wrote, returned the cached summary without asking the LLM.
C27_Witness ==
    /\ call.op = "summarize" /\ call.get_key /= None
    /\ ~call.computed /\ call.ret.ok
    /\ now > 0
    /\ cache[cache_key(call.get_key[1], compression_method)][2] = now

\* ------------------------------------------------ retry loops
\* The summarizer's and the loader's loops, a step per iteration; call holds
\* the running loop: its position, its loop variable and what it asked so far.
MaxRetries == 3
max_attempts == 3

\* Values of settings.openai_max_retries.
RetrySettings == (0 - 1)..MaxRetries

\* What client.chat.completions.create gives: a response with content, a
\* response with empty content, a response without choices, an exception.
Replies == {[kind |-> "response", content |-> c] : c \in {"hello", ""}}
           \cup {[kind |-> k, content |-> ""] : k \in {"no_choices", "exception"}}

\* What ydl.extract_info(url, download=False) gives: an exception, or the video's
\* info with or without a language and with or without subtitle tracks.
InfoReplies == {[kind |-> "exception", language |-> "", subtitles |-> {}]}
               \cup {[kind |-> "info", language |-> l, subtitles |-> s] :
                       l \in {"", "en-US"}, s \in {{}, {"ru"}}}

\* What ydl.extract_info(url, download=True) gives.
DownloadReplies == {"downloaded", "exception"}

\* No loop is under way.
Resting == IF call.op = "none" THEN TRUE ELSE call.pc = "done"

\* A deliberately wrong end of range, for comparison: one iteration more.
RangeEndsLate(attempt, stop) == attempt > stop

\* `for attempt in range(stop)`: no iteration is left after `attempt` of them.
RangeEnds(attempt, stop) == attempt >= stop

\* summarization.py lines 125-141: the reply is returned when it has choices
\* and a non-empty content; otherwise the try block raises.
Returned(reply) == reply.kind = "response" /\ reply.content /= ""

SummarizerLoop(op, max_retries, pc, attempt, replies, slept, ret) ==
    [op |-> op, pc |-> pc, openai_max_retries |-> max_retries, attempt |-> attempt,
     replies |-> replies, slept |-> slept, ret |-> ret]

\* The end of the for statement: with iterations left the loop goes on, without
\* the statement after it raises.
LoopOrRaise(op, max_retries, attempt, replies, slept) ==
    IF RangeEnds(attempt, max_retries)
    THEN SummarizerLoop(op, max_retries, "done", attempt, replies, slept,
                        Err("RuntimeError: failed to summarize text"))
    ELSE SummarizerLoop(op, max_retries, "loop", attempt, replies, slept, None)

retryRest == <<now, config, otherVars, rateVars, srv, concVars, dataVars>>

\* OpenAISummarizer._summarize up to its loop.
StartSummarize(locale, max_retries) ==
    /\ Resting
    /\ call' = IF locale = "" \/ max_retries <= 0
               THEN SummarizerLoop("_summarize", max_retries, "done", 0, <<>>, 0,
                                   Err("ValueError"))
               ELSE LoopOrRaise("_summarize", max_retries, 0, <<>>, 0)
    /\ UNCHANGED retryRest

\* OpenAISummarizer.summarize_text of src/summarization.py up to its loop.
StartSummarizeText(max_retries) ==
    /\ Resting
    /\ call' = LoopOrRaise("summarize_text", max_retries, 0, <<>>, 0)
    /\ UNCHANGED retryRest

\* One iteration of the summarizer's loop: the request, and either the return
\* of its content or the except clause with its sleep.
Attempt(reply) ==
    /\ call.op \in {"_summarize", "summarize_text"}
    /\ call.pc = "loop"
    /\ call' = IF Returned(reply)
               THEN SummarizerLoop(call.op, call.openai_max_retries, "done",
                                   call.attempt, Append(call.replies, reply),
                                   call.slept, Ok(reply.content))
               ELSE LoopOrRaise(call.op, call.openai_max_retries, call.attempt + 1,
                                Append(call.replies, reply), call.slept + 1)
    /\ UNCHANGED retryRest

LoaderLoop(pc, attempt, infos, downloads, looked, ret) ==
    [op |-> "_load", pc |-> pc, attempt |-> attempt, infos |-> infos,
     downloads |-> downloads, looked |-> looked, ret |-> ret]

\* VideoDataLoader._detect_language
_detect_language(info) ==
    IF info.language /= "" THEN Ok("en")
    ELSE IF info.subtitles = {} THEN Err("RuntimeError: no subtitles available")
    ELSE IF "en" \in info.subtitles THEN Ok("en")
    ELSE Ok(CHOOSE l \in info.subtitles : TRUE)

\* A deliberately wrong test, for comparison: every reply counts as a failure.
BrokeNever(kind) == FALSE

\* lines 196 and 235: the try block reached its break.
Broke(kind) == kind /= "exception"

\* VideoDataLoader._load up to its first loop.
StartLoad ==
    /\ Resting
    /\ call' = LoaderLoop("info", 0, <<>>, <<>>, FALSE, None)
    /\ UNCHANGED retryRest

\* One iteration of the video info loop, with what follows its end: the raise
\* of the else clause, or the language detection before the second loop.
InfoAttempt(reply) ==
    /\ call.op = "_load" /\ call.pc = "info"
    /\ LET infos == Append(call.infos, reply)
           language == _detect_language(reply)
       IN  call' =
             IF Broke(reply.kind)
             THEN IF language.ok
                  THEN LoaderLoop("subtitles", 0, infos, <<>>, FALSE, None)
                  ELSE LoaderLoop("done", call.attempt, infos, <<>>, FALSE, language)
             ELSE IF RangeEnds(call.attempt + 1, max_attempts)
             THEN LoaderLoop("done", call.attempt + 1, infos, <<>>, FALSE,
                    Err("RuntimeError: Failed to load video info after 3 attempts"))
             ELSE LoaderLoop("info", call.attempt + 1, infos, <<>>, FALSE, None)
    /\ UNCHANGED retryRest

\* One iteration of the subtitle download loop, with what follows its end: the
\* raise of the else clause, or the search for the subtitle file and the return.
SubtitleAttempt(reply, found) ==
    /\ call.op = "_load" /\ call.pc = "subtitles"
    /\ LET downloads == Append(call.downloads, reply)
       IN  call' =
             IF Broke(reply)
             THEN LoaderLoop("done", call.attempt, call.infos, downloads, TRUE,
                             IF found THEN Ok("transcript")
                             ELSE Err("FileNotFoundError: no subtitles found"))
             ELSE IF RangeEnds(call.attempt + 1, max_attempts)
             THEN LoaderLoop("done", call.attempt + 1, call.infos, downloads, FALSE,
                    Err("RuntimeError: Failed to download subtitles after 3 attempts"))
             ELSE LoaderLoop("subtitles", call.attempt + 1, call.infos, downloads,
                             FALSE, None)
    /\ UNCHANGED retryRest

InitRetry ==
    /\ Constructed
    /\ provider = "in_memory"
    /\ cooldown_seconds = rate_limit_window
    /\ compression_method = "gzip"

\* A step of the loop under way.
Iterate ==
    \/ \E reply \in Replies : Attempt(reply)
    \/ \E reply \in InfoReplies : InfoAttempt(reply)
    \/ \E reply \in DownloadReplies, found \in BOOLEAN : SubtitleAttempt(reply, found)

NextRetry ==
    \/ \E locale \in Locales, max_retries \in RetrySettings :
          StartSummarize(locale, max_retries)
    \/ \E max_retries \in RetrySettings : StartSummarizeText(max_retries)
    \/ StartLoad
    \/ \E reply \in Replies : Attempt(reply)
    \/ \E reply \in InfoReplies : InfoAttempt(reply)
    \/ \E reply \in DownloadReplies, found \in BOOLEAN : SubtitleAttempt(reply, found)

\* The loop runs in a thread of its own (asyncio.to_thread), the request has a
\* timeout and time.sleep(1) returns: an iteration that can run does run.
SpecRetry == InitRetry /\ [][NextRetry]_vars /\ WF_vars(Iterate)

\* The number of replies among the first n that were not returned.
RECURSIVE Failures(_, _)
Failures(replies, n) ==
    IF n = 0 THEN 0
    ELSE Failures(replies, n - 1) + (IF Returned(replies[n]) THEN 0 ELSE 1)

Summarizing == call.op \in {"_summarize", "summarize_text"}

\* C28: a summarization makes at most openai_max_retries requests (none when
\* the setting is not positive); only its last request can have returned
\* non-empty content, and then that content is the result; every request that
\* raised or answered without choices or content is one failed attempt; once
\* openai_max_retries attempts failed it raises the RuntimeError "failed to
\* summarize text"; and a loop under way always comes to its end.
C28_RetryLoop ==
    /\ [](Summarizing =>
            LET n == Len(call.replies)
                stop == call.openai_max_retries
            IN  /\ n <= (IF stop > 0 THEN stop ELSE 0)
                /\ \A i \in 1..n : Returned(call.replies[i]) => i = n
                /\ call.attempt = Failures(call.replies, n)
                /\ call.slept = call.attempt
                /\ (n > 0 /\ Returned(call.replies[n]))
                      => call.pc = "done" /\ call.ret = Ok(call.replies[n].content)
                /\ (stop > 0 /\ call.attempt = stop)
                      => /\ call.pc = "done"
                         /\ call.ret = Err("RuntimeError: failed to summarize text")
                /\ (call.pc = "done" /\ stop > 0 /\ ~call.ret.ok
                        /\ call.ret.err /= "ValueError")
                      => call.attempt = stop
                /\ call.pc = "loop" => call.attempt < stop)
    /\ ((Summarizing /\ call.pc = "loop") ~> (Summarizing /\ call.pc = "done"))

\* A summarization answered at its third and last attempt, after an exception
\* and an empty response.
C28_Witness ==
    /\ call.op = "_summarize" /\ call.pc = "done"
    /\ call.openai_max_retries = 3
    /\ Len(call.replies) = 3
    /\ call.replies[1].kind = "exception"
    /\ call.replies[2] = [kind |-> "response", content |-> ""]
    /\ call.ret = Ok("hello")

\* C29: a load asks for the video info at most max_attempts times and
\* downloads subtitles at most max_attempts times, the downloads only after a
\* request for the info succeeded; only the last request of a phase can have
\* succeeded; max_attempts failures of a phase raise that phase's RuntimeError
\* with nothing of a later phase done; and a download that succeeded without a
\* subtitle file to be found raises FileNotFoundError.
C29_RetryPhases ==
    call.op = "_load" =>
        LET ni == Len(call.infos)
            nd == Len(call.downloads)
        IN  /\ ni <= max_attempts /\ nd <= max_attempts
            /\ \A i \in 1..ni : call.infos[i].kind = "info" => i = ni
            /\ \A i \in 1..nd : call.downloads[i] = "downloaded" => i = nd
            /\ (nd > 0 \/ call.pc = "subtitles")
                  => ni > 0 /\ call.infos[ni].kind = "info"
            /\ call.looked => nd > 0 /\ call.downloads[nd] = "downloaded"
            /\ (ni = max_attempts /\ call.infos[ni].kind = "exception")
                  => /\ call.pc = "done"
                     /\ call.ret =
                          Err("RuntimeError: Failed to load video info after 3 attempts")
                     /\ nd = 0 /\ ~call.looked
            /\ (nd = max_attempts /\ call.downloads[nd] = "exception")
                  => /\ call.pc = "done"
                     /\ call.ret =
                          Err("RuntimeError: Failed to download subtitles after 3 attempts")
                     /\ ~call.looked
            /\ (call.pc = "done" /\ nd > 0 /\ call.downloads[nd] = "downloaded")
                  => /\ call.looked
                     /\ call.ret \in {Ok("transcript"),
                                      Err("FileNotFoundError: no subtitles found")}

\* A load whose third request for the info succeeded and whose third download
\* failed.
C29_Witness ==
    /\ call.op = "_load" /\ call.pc = "done"
    /\ Len(call.infos) = max_attempts /\ call.infos[max_attempts].kind = "info"
    /\ Len(call.downloads) = max_attempts
    /\ call.downloads[max_attempts] = "exception"
    /\ call.ret = Err("RuntimeError: Failed to download subtitles after 3 attempts")

\* ------------------------------------------------ the message handler
\* message.from_user: nobody, a bot, a person.
Senders == {None, Some([id |-> 123, is_bot |-> TRUE, language_code |-> "en"]),
            Some([id |-> 123, is_bot |-> FALSE, language_code |-> "en"])}

\* message.text
MessageTexts == {None, Some("hi"), Some("https://youtu.be/dQw4w9WgXcQ"),
                 Some("https://youtu.be/dQw4w9WgXcQ https://youtu.be/dQw4w9WgXcQ")}

\* video_provider.extract_urls: the matches of the first pattern that matches.
extract_urls(text) ==
    CASE text = "https://youtu.be/dQw4w9WgXcQ" -> <<"https://youtu.be/dQw4w9WgXcQ">>
      [] text = "https://youtu.be/dQw4w9WgXcQ https://youtu.be/dQw4w9WgXcQ" ->
           <<"https://youtu.be/dQw4w9WgXcQ", "https://youtu.be/dQw4w9WgXcQ">>
      [] OTHER -> <<>>

\* A deliberately wrong test, for comparison: the limiter's answer is ignored.
ReportedNever(checked) == FALSE

\* messages.py line 54: `if await rate_limiter.is_limited(user.id):`
Reported(checked) == checked.ret

\* What handle_message did: whether it asked the rate limiter and what that
\* reported, the replies it sent, the edits of its progress message, the links
\* it handed to the loader and the texts it handed to the summarizer; and the
\* maps it leaves.
Handled(sender, text, asked, limited, replies, edits, loads, summaries,
        limits, texts, dicts) ==
    [rate_limits |-> limits, cache |-> texts, cache_dict |-> dicts,
     call |-> [op |-> "handle_message", sender |-> sender, text |-> text,
               asked |-> asked, limited |-> limited, replies |-> replies,
               edits |-> edits, loads |-> loads, summaries |-> summaries]]

\* handle_message from the first use of the message text on (lines 72-200).
Process(sender, text, limits, loaded, transcript, thumbnail, llm, ttl) ==
    LET language == sender[1].language_code
        urls == extract_urls(text[1])
        loading == load(cache_dict, urls[1], loaded, ttl)
        summarizing == summarize(cache, transcript, language, llm, ttl)
    IN  IF urls = <<>>
        THEN Handled(sender, text, TRUE, FALSE, <<"telegram.error.no_url_found">>,
                     <<>>, <<>>, <<>>, limits, cache, cache_dict)
        ELSE IF Len(urls) > 1
        THEN Handled(sender, text, TRUE, FALSE, <<"telegram.progress.processing">>,
                     <<"telegram.error.multiple_urls">>, <<>>, <<>>,
                     limits, cache, cache_dict)
        ELSE IF ~loading.call.ret.ok
        THEN Handled(sender, text, TRUE, FALSE, <<"telegram.progress.processing">>,
                     <<"telegram.progress.fetching_info",
                       "telegram.error.transcript_failed">>,
                     <<urls[1]>>, <<>>, limits, cache, loading.cache)
        ELSE IF ~summarizing.call.ret.ok
        THEN Handled(sender, text, TRUE, FALSE, <<"telegram.progress.processing">>,
                     <<"telegram.progress.fetching_info",
                       "telegram.progress.summarizing",
                       "telegram.error.summary_failed">>,
                     <<urls[1]>>, <<transcript>>, limits, summarizing.cache,
                     loading.cache)
        ELSE Handled(sender, text, TRUE, FALSE,
                     <<"telegram.progress.processing">>
                       \o (IF thumbnail THEN <<"telegram.response.title">> ELSE <<>>)
                       \o <<"summary">>,
                     <<"telegram.progress.fetching_info",
                       "telegram.progress.summarizing">>,
                     <<urls[1]>>, <<transcript>>, limits, summarizing.cache,
                     loading.cache)

\* A deliberately wrong order, for comparison: the text is searched for links
\* first, and a message without exactly one is dropped before the rate limiter.
IgnoredWithoutLink(sender, text) ==
    IF sender = None THEN TRUE
    ELSE IF sender[1].is_bot \/ text = None THEN TRUE
    ELSE Len(extract_urls(text[1])) /= 1

\* messages.py lines 31-42: the returns before the rate limiter - no sender, a
\* bot, no text.
Ignored(sender, text) ==
    IF sender = None THEN TRUE ELSE sender[1].is_bot \/ text = None

\* handle_message, with the rate limiter, the loader and the summarizer over
\* the InMemoryCacheProvider: loaded and llm are what the downloader and the
\* LLM give when asked, transcript and thumbnail the text and the picture of
\* the transcript the loader returns.
HandleMessage(sender, text, loaded, transcript, thumbnail, llm, ttl) ==
    LET checked == InMemory_is_rate_limited(rate_limits, sender[1].id,
                                            cooldown_seconds, now)
        done == IF Ignored(sender, text)
                THEN Handled(sender, text, FALSE, FALSE, <<>>, <<>>, <<>>, <<>>,
                             rate_limits, cache, cache_dict)
                ELSE IF Reported(checked)
                THEN Handled(sender, text, TRUE, checked.ret,
                             <<"telegram.error.rate_limited">>, <<>>, <<>>, <<>>,
                             checked.rate_limits, cache, cache_dict)
                ELSE LET rest == Process(sender, text, checked.rate_limits, loaded,
                                         transcript, thumbnail, llm, ttl)
                     IN  [rest EXCEPT !.call.limited = checked.ret]
    IN  /\ provider = "in_memory"
        /\ call' = done.call
        /\ rate_limits' = done.rate_limits
        /\ accepted' = IF done.call.asked
                       THEN Accept("in_memory", "in_memory", sender[1].id, checked.ret)
                       ELSE accepted
        /\ cache' = done.cache
        /\ cache_dict' = done.cache_dict
        /\ UNCHANGED <<now, config, otherVars, local_rate_limits, srv, concVars,
                       local_cache, local_cache_dict, written, remote_answered>>

InitHandler ==
    /\ ConstructedOver(CollaboratorStorageKeys)
    /\ provider = "in_memory"
    /\ cooldown_seconds = MaxWindow
    /\ compression_method = "gzip"

NextHandler ==
    \/ Tick
    \/ \E sender \in Senders, text \in MessageTexts, loaded \in Loads,
          transcript \in Transcripts, thumbnail \in BOOLEAN, llm \in Summaries,
          ttl \in CollaboratorTtls :
          HandleMessage(sender, text, loaded, transcript, thumbnail, llm, ttl)

SpecHandler == InitHandler /\ [][NextHandler]_vars

\* C30: when the rate limiter reports the sender limited, handle_message sends
\* one reply, the rate-limited notice, edits nothing, hands nothing to the
\* loader or the summarizer, and leaves every cache entry as it was.
C30_ShortCircuit ==
    [][(call'.op = "handle_message" /\ call'.limited) =>
          /\ call'.replies = <<"telegram.error.rate_limited">>
          /\ call'.edits = <<>>
          /\ call'.loads = <<>> /\ call'.summaries = <<>>
          /\ UNCHANGED <<cache, cache_dict, local_cache, local_cache_dict>>
      ]_vars

\* A limited sender sent a link whose transcript is in the cache.
C30_Witness ==
    /\ call.op = "handle_message" /\ call.limited
    /\ call.text = Some("https://youtu.be/dQw4w9WgXcQ")
    /\ \E k \in DOMAIN cache_dict : cache_dict[k] /= None /\ now <= cache_dict[k][2]

\* C31: handle_message asks the rate limiter before it looks for links. A
\* message of a person, with a text, is always checked: one sent within the
\* cooldown of an accepted one is limited, and one that is not limited is
\* recorded as the sender's latest request whatever links it has - none, one
\* or several. A message without sender, of a bot or without text is dropped
\* unanswered before the check and leaves the sender's cooldown as it was.
C31_CheckedFirst ==
    [][call'.op = "handle_message" =>
          IF (IF call'.sender = None THEN TRUE
              ELSE call'.sender[1].is_bot \/ call'.text = None)
          THEN /\ ~call'.asked /\ ~call'.limited
               /\ call'.replies = <<>> /\ call'.edits = <<>>
               /\ UNCHANGED rate_limits
          ELSE LET id == call'.sender[1].id
                   last == rate_limits[id]
               IN  /\ call'.asked
                   /\ call'.limited
                        <=> (last /= None /\ now - last[1] < cooldown_seconds)
                   /\ call'.limited => UNCHANGED rate_limits
                   /\ ~call'.limited
                        => /\ rate_limits'[id] = Some(now)
                           /\ call'.replies /= <<>>
                           /\ Len(extract_urls(call'.text[1])) /= 1
                                => call'.loads = <<>>
      ]_vars

\* A message with two links, of a person whose cooldown was over, was answered
\* with the multiple-links error and started the cooldown anew.
C31_Witness ==
    /\ call.op = "handle_message" /\ call.asked /\ ~call.limited
    /\ Len(extract_urls(call.text[1])) > 1
    /\ call.edits = <<"telegram.error.multiple_urls">>
    /\ now >= cooldown_seconds
    /\ rate_limits[call.sender[1].id] = Some(now)

\* ------------------------------------------------ key independence
\* The local backends with every key used in both of their stores.
InitKeys ==
    /\ Constructed
    /\ provider \in {"in_memory", "local"}
    /\ cooldown_seconds = rate_limit_window
    /\ compression_method = "gzip"

\* The texts and records put, and their time to live.
KeyTexts == Texts
KeyDicts == {[text |-> <<72>>], [text |-> NonSerializable]}
KeyTtls == {MaxTtl}

NextKeys ==
    \/ Tick
    \/ \E k \in Keys : InMemoryGet(k)
    \/ \E k \in Keys, text \in KeyTexts, ttl \in KeyTtls : InMemoryPut(k, text, ttl)
    \/ \E k \in Keys : InMemoryGetDict(k)
    \/ \E k \in Keys, d \in KeyDicts, ttl \in KeyTtls : InMemoryPutDict(k, d, ttl)
    \/ \E k \in Keys : LocalGet(k)
    \/ \E k \in Keys, text \in KeyTexts, ttl \in KeyTtls : LocalPut(k, text, ttl)
    \/ \E k \in Keys : LocalGetDict(k)
    \/ \E k \in Keys, d \in KeyDicts, ttl \in KeyTtls : LocalPutDict(k, d, ttl)

SpecKeys == InitKeys /\ [][NextKeys]_vars

\* C32: on a local backend a put or put_dict of a key leaves the entry - value
\* and expiry - of every other key of its store, and every entry of the other
\* store, the same key's included, as it was; and a get or get_dict of a key
\* with no put in force (never written, in particular) returns nothing.
C32_KeyIndependence ==
    [][/\ call'.op \in {"put", "put_dict"}
          => \A k2 \in Keys, op2 \in {"get", "get_dict"} :
                (k2 /= call'.key \/ StoreOf(op2) /= StoreOf(call'.op))
                  => Entry(cache', cache_dict', local_cache', local_cache_dict',
                           provider, op2, k2)
                     = Entry(cache, cache_dict, local_cache, local_cache_dict,
                             provider, op2, k2)
       /\ (call'.op \in {"get", "get_dict"}
             /\ written[StoreOf(call'.op)][call'.key] = None)
          => call'.ret = Ok(None)
      ]_vars

\* A text was put under a key while another key of the text store and the
\* same key of the record store held entries in force, all three different.
C32_Witness ==
    /\ call.op = "put" /\ call.ret.ok
    /\ \E k2 \in Keys \ {call.key} :
          LET mine == Entry(cache, cache_dict, local_cache, local_cache_dict,
                            provider, "get", call.key)
              other == Entry(cache, cache_dict, local_cache, local_cache_dict,
                             provider, "get", k2)
              record == Entry(cache, cache_dict, local_cache, local_cache_dict,
                              provider, "get_dict", call.key)
          IN  /\ mine /= None /\ other /= None /\ record /= None
              /\ other[1] /= mine[1] /\ other[2] /= mine[2]
              /\ now <= other[2] /\ now <= record[2]

\* ------------------------------------------------ the empty byte string
\* C33: decompress of the empty byte string, which has no tag, returns the
\* empty byte string and raises nothing.
C33_EmptyIsEmpty ==
    (codec.op = "decoded" /\ codec.blob = <<>>) => codec.ret = Ok(<<>>)

\* The output of lzma for a non-empty input lost all its bytes, the tag
\* included, and was decompressed.
C33_Witness ==
    /\ codec.op = "decoded" /\ codec.blob = <<>>
    /\ codec.damage = "truncated" /\ codec.at = 0
    /\ codec.method = "lzma" /\ codec.data /= <<>>
    /\ codec.ret.ok

\* ------------------------------------------------ a window that is not positive
\* C34: with a cooldown window of zero or less, is_rate_limited of a local
\* backend raises nothing and limits nobody: every call returns False and
\* stores the current time as the user's latest request.
C34_NonPositiveWindow ==
    [][(/\ call'.op = "is_rate_limited"
        /\ call'.served \in {"in_memory", "local"}
        /\ cooldown_seconds <= 0)
          => /\ call'.ret = FALSE
             /\ (IF call'.served = "in_memory" THEN rate_limits'
                 ELSE local_rate_limits')[call'.user] = Some(now)
      ]_vars

\* With a window of zero the InMemoryCacheProvider accepted a second request
\* of a user at the instant of the first.
C34_Witness ==
    /\ call.op = "is_rate_limited" /\ call.served = "in_memory"
    /\ cooldown_seconds = 0
    /\ ~call.ret
    /\ call.served_before = Some(now)
    /\ rate_limits[call.user] = Some(now)

====
